---- MODULE Spec2Model ----
(***************************************************************************)
(* Subtitle parsing, chunking and rendering, and timeline resolution, of    *)
(* the short-video renderer.                                               *)
(*                                                                         *)
(* Times are held in integer milliseconds (the SRT format has millisecond  *)
(* resolution), so that seconds*fps is the exact rational ms*fps/1000 and  *)
(* Math.round(x) = floor(x + 1/2) is computed in integers.  The code works *)
(* in IEEE doubles: its results can differ from the exact ones only where  *)
(* the exact value lies halfway between two frames.  Text is a sequence of *)
(* one-character strings.                                                  *)
(***************************************************************************)
EXTENDS Integers, Sequences, FiniteSets, TLC

VARIABLES
    subtitles,       \* SubtitleEntry[] handed to the chunkers
    config,          \* ChunkConfig / ChunkingOptions in force
    chunks,          \* result of chunkSRT
    karaokeChunks,   \* result of chunkSrtForKaraoke
    done,            \* which chunkers have run
    data,            \* phrases_with_video_prompts of the timeline descriptor
    timeline,        \* SequencedVideo state: TimelineSegment[]
    loaded,          \* whether loadData has stored a timeline
    frame,           \* useCurrentFrame()
    activeSegment,   \* result of getActiveSegment for the frame
    currentLayout,   \* layout of the frame
    animations,      \* config.animations of the subtitle template
    activeChunk,     \* SubtitleRenderer: the chunk found for the frame
    fadeInProgress,  \* SubtitleRenderer: fade-in curve at the frame
    fadeOutProgress, \* SubtitleRenderer: fade-out curve at the frame
    opacity,         \* SubtitleRenderer: opacity of the rendered text
    testFrame,       \* frame handed to getCurrentChunk
    karaokeCurrent,  \* result of getCurrentChunk
    srtContent,      \* text of the SRT file handed to parseSRT
    fetchOk,         \* whether fetch() of the files is answered
    durationFps,     \* fps handed to the duration calculators
    subtitleDuration, \* result of calculateDurationFromSubtitles
    videoDuration,   \* result of calculateVideoDuration
    sequencedDuration, \* result of calculateSequencedVideoDuration
    templateFile,    \* the template JSON that loadTemplateConfig fetches
    templateConfig,  \* KaraokeVideo state: TemplateConfig | null
    karaokeOptions,  \* ChunkingOptions handed to chunkSrtForKaraoke
    component,       \* which composition is mounted
    requested,       \* how many times the loading effect has run
    loads,           \* the loadData calls started, each with its position
    loading,         \* component state: loading
    error,           \* component state: error
    splitText,       \* the text handed to splitTextIntoChunks
    splitRemaining,  \* splitTextIntoChunks: remainingText, what is left to cut
    splitChunks,     \* splitTextIntoChunks: the fragments pushed so far
    splitPc          \* splitTextIntoChunks: in the loop, at the filter, returned

chunkVars == <<subtitles, config, chunks, karaokeChunks, done>>
timelineVars == <<data, timeline, loaded, frame, activeSegment, currentLayout>>
rendererVars == <<animations, activeChunk, fadeInProgress, fadeOutProgress, opacity,
                  testFrame, karaokeCurrent>>
durationVars == <<fetchOk, durationFps, subtitleDuration, videoDuration,
                  sequencedDuration>>
templateVars == <<templateFile, templateConfig, karaokeOptions>>
loaderVars == <<component, requested, loads, loading, error>>
splitVars == <<splitText, splitRemaining, splitChunks, splitPc>>
extensionVars == <<durationVars, templateVars, loaderVars, splitVars>>
vars == <<subtitles, config, chunks, karaokeChunks, done,
          data, timeline, loaded, frame, activeSegment, currentLayout,
          animations, activeChunk, fadeInProgress, fadeOutProgress, opacity,
          testFrame, karaokeCurrent, srtContent, extensionVars>>

----------------------------------------------------------------------------
(* Bounds of the input domains *)

MaxTextLen == 4
MaxCharsBound == 2
MaxGap == 2

Alphabet == {"a", " ", ","}
TimesMs == {0, 20, 100, 1000, 3000}
MinDurationsMs == {50, 1200}
FpsSet == {30}

----------------------------------------------------------------------------
(* Arithmetic *)

Max(a, b) == IF a >= b THEN a ELSE b
Min(a, b) == IF a <= b THEN a ELSE b

\* Math.round(num/den) for den > 0: floor(num/den + 1/2)
MathRound(num, den) == (2 * num + den) \div (2 * den)

----------------------------------------------------------------------------
(* Strings *)

IsSpace(c) == c \in {" ", "\n"}

RECURSIVE TrimStart(_)
TrimStart(s) ==
    IF Len(s) > 0 /\ IsSpace(Head(s)) THEN TrimStart(Tail(s)) ELSE s

RECURSIVE TrimEnd(_)
TrimEnd(s) ==
    IF Len(s) > 0 /\ IsSpace(s[Len(s)]) THEN TrimEnd(SubSeq(s, 1, Len(s) - 1)) ELSE s

\* String.prototype.trim
Trim(s) == TrimEnd(TrimStart(s))

\* Array.prototype.indexOf: 0-based position of the first occurrence, or -1
indexOf(arr, c) ==
    IF \E k \in 1..Len(arr) : arr[k] = c
    THEN (CHOOSE k \in 1..Len(arr) : arr[k] = c /\ \A j \in 1..(k - 1) : arr[j] # c) - 1
    ELSE -1

\* String.prototype.substring(from, to), 0-based, to exclusive
substring(s, from, to) == SubSeq(s, from + 1, to)

----------------------------------------------------------------------------
(* chunk-srt: character chunking *)

\* the scan of the window that keeps the last break character it meets
RECURSIVE ScanLastBreakPoint(_, _, _, _, _, _)
ScanLastBreakPoint(remainingText, limit, breakPriority, i, bestBreakPoint, bestPriority) ==
    IF i >= limit THEN bestBreakPoint
    ELSE LET priority == indexOf(breakPriority, remainingText[i + 1])
         IN  IF priority # -1
             THEN ScanLastBreakPoint(remainingText, limit, breakPriority, i + 1, i, priority)
             ELSE ScanLastBreakPoint(remainingText, limit, breakPriority, i + 1,
                                     bestBreakPoint, bestPriority)

\* the for loop of splitTextIntoChunks: the first position of the best priority
RECURSIVE ScanBreakPoint(_, _, _, _, _, _)
ScanBreakPoint(remainingText, limit, breakPriority, i, bestBreakPoint, bestPriority) ==
    IF i >= limit THEN bestBreakPoint
    ELSE LET priority == indexOf(breakPriority, remainingText[i + 1])
         IN  IF priority # -1 /\ priority > bestPriority
             THEN ScanBreakPoint(remainingText, limit, breakPriority, i + 1, i, priority)
             ELSE ScanBreakPoint(remainingText, limit, breakPriority, i + 1,
                                 bestBreakPoint, bestPriority)

\* the while loop of splitTextIntoChunks
RECURSIVE SplitLoop(_, _, _)
SplitLoop(remainingText, maxChars, breakPriority) ==
    IF Len(remainingText) = 0 THEN <<>>
    ELSE IF Len(remainingText) <= maxChars THEN <<remainingText>>
    ELSE LET found == ScanBreakPoint(remainingText, Min(maxChars, Len(remainingText)),
                                     breakPriority, 0, -1, -1)
             bestBreakPoint == IF found = -1 THEN maxChars - 1 ELSE found
         IN  <<substring(remainingText, 0, bestBreakPoint + 1)>>
             \o SplitLoop(substring(remainingText, bestBreakPoint + 1, Len(remainingText)),
                          maxChars, breakPriority)

NonBlank(chunk) == Len(Trim(chunk)) > 0

splitTextIntoChunks(text, maxChars, breakPriority) ==
    SelectSeq(SplitLoop(text, maxChars, breakPriority), NonBlank)

\* the short-text branch of chunkSingleSubtitle with Math.floor for Math.round
SingleChunkFloor(subtitle, cfg, text) ==
    << [ startFrame |-> (subtitle.startTime * cfg.fps) \div 1000,
         endFrame |-> (subtitle.endTime * cfg.fps) \div 1000,
         text |-> text,
         originalSubtitle |-> subtitle.id,
         chunkIndex |-> 0,
         totalChunks |-> 1 ] >>

\* the short-text branch of chunkSingleSubtitle
SingleChunk(subtitle, cfg, text) ==
    << [ startFrame |-> MathRound(subtitle.startTime * cfg.fps, 1000),
         endFrame |-> MathRound(subtitle.endTime * cfg.fps, 1000),
         text |-> text,
         originalSubtitle |-> subtitle.id,
         chunkIndex |-> 0,
         totalChunks |-> 1 ] >>

\* frameDurationPerChunk of chunkSingleSubtitle
frameDurationPerChunk(subtitle, cfg, count) ==
    LET totalDuration == subtitle.endTime - subtitle.startTime
        minFrameDuration == MathRound(cfg.minDuration * cfg.fps, 1000)
    IN  Max(MathRound(totalDuration * cfg.fps, 1000 * count), minFrameDuration)

\* the forEach of chunkSingleSubtitle with the gap left out of currentStartFrame
TimedChunkNoGap(subtitle, cfg, textChunks, index) ==
    LET perChunk == frameDurationPerChunk(subtitle, cfg, Len(textChunks))
        startFrame == MathRound(subtitle.startTime * cfg.fps, 1000) + index * perChunk
    IN  [ startFrame |-> startFrame,
          endFrame |-> startFrame + perChunk,
          text |-> Trim(textChunks[index + 1]),
          originalSubtitle |-> subtitle.id,
          chunkIndex |-> index,
          totalChunks |-> Len(textChunks) ]

\* the forEach of chunkSingleSubtitle with the gap added before the first chunk too
TimedChunkGapFirst(subtitle, cfg, textChunks, index) ==
    LET perChunk == frameDurationPerChunk(subtitle, cfg, Len(textChunks))
        startFrame == MathRound(subtitle.startTime * cfg.fps, 1000) + cfg.gapFrames
                      + index * (perChunk + cfg.gapFrames)
    IN  [ startFrame |-> startFrame,
          endFrame |-> startFrame + perChunk,
          text |-> Trim(textChunks[index + 1]),
          originalSubtitle |-> subtitle.id,
          chunkIndex |-> index,
          totalChunks |-> Len(textChunks) ]

\* the forEach of chunkSingleSubtitle: chunk `index` (0-based) of the cue
TimedChunk(subtitle, cfg, textChunks, index) ==
    LET perChunk == frameDurationPerChunk(subtitle, cfg, Len(textChunks))
        startFrame == MathRound(subtitle.startTime * cfg.fps, 1000)
                      + index * (perChunk + cfg.gapFrames)
    IN  [ startFrame |-> startFrame,
          endFrame |-> startFrame + perChunk,
          text |-> Trim(textChunks[index + 1]),
          originalSubtitle |-> subtitle.id,
          chunkIndex |-> index,
          totalChunks |-> Len(textChunks) ]

\* chunkSingleSubtitle without its final adjustment
KeepLastChunk(list, subtitle, cfg) == list

\* "Ajustar el ultimo fragmento para que termine con el subtitulo original"

AdjustLastChunk(list, subtitle, cfg) ==
    IF Len(list) > 0
    THEN [list EXCEPT ![Len(list)].endFrame = MathRound(subtitle.endTime * cfg.fps, 1000)]
    ELSE list

chunkSingleSubtitle(subtitle, cfg) ==
    LET text == Trim(subtitle.text)
    IN  IF Len(text) <= cfg.maxChars
        THEN SingleChunk(subtitle, cfg, text)
        ELSE LET textChunks == splitTextIntoChunks(text, cfg.maxChars, cfg.wordBreakPriority)
                 list == [k \in 1..Len(textChunks) |->
                             TimedChunk(subtitle, cfg, textChunks, k - 1)]
             IN  AdjustLastChunk(list, subtitle, cfg)

RECURSIVE chunkSRT(_, _)
chunkSRT(subs, cfg) ==
    IF Len(subs) = 0 THEN <<>>
    ELSE chunkSingleSubtitle(Head(subs), cfg) \o chunkSRT(Tail(subs), cfg)

----------------------------------------------------------------------------
(* karaokeChunker: word chunking *)

\* cleanText.split(/\s+/).filter(word => word.length > 0)
RECURSIVE SplitWords(_, _)
SplitWords(s, word) ==
    IF Len(s) = 0 THEN (IF Len(word) > 0 THEN <<word>> ELSE <<>>)
    ELSE IF IsSpace(Head(s))
         THEN (IF Len(word) > 0 THEN <<word>> ELSE <<>>) \o SplitWords(Tail(s), <<>>)
         ELSE SplitWords(Tail(s), Append(word, Head(s)))

\* item.text.replace(/\n/g, ' ')
ReplaceNewlines(s) == [k \in 1..Len(s) |-> IF s[k] = "\n" THEN " " ELSE s[k]]

\* Array.prototype.join(' ')
RECURSIVE JoinWords(_)
JoinWords(ws) ==
    IF Len(ws) = 0 THEN <<>>
    ELSE IF Len(ws) = 1 THEN ws[1]
    ELSE ws[1] \o <<" ">> \o JoinWords(Tail(ws))

\* a grouping that gives every word a chunk of its own
GroupWordsOnePerChunk(words, i, currentChunk, wordChunks, maxChars) ==
    [k \in 1..Len(words) |-> <<words[k]>>]

\* the word-grouping loop of chunkSrtForKaraoke, from word i (1-based)
RECURSIVE GroupWords(_, _, _, _, _)
GroupWords(words, i, currentChunk, wordChunks, maxChars) ==
    IF i > Len(words) THEN wordChunks
    ELSE LET word == words[i]
             testChunk == Append(currentChunk, word)
             exceeds == Len(currentChunk) > 0 /\ Len(JoinWords(testChunk)) > maxChars
             nextChunk == IF exceeds THEN <<word>> ELSE testChunk
             pushed == IF exceeds THEN Append(wordChunks, currentChunk) ELSE wordChunks
             final == IF i = Len(words) /\ Len(nextChunk) > 0
                      THEN Append(pushed, nextChunk) ELSE pushed
         IN  GroupWords(words, i + 1, nextChunk, final, maxChars)

\* the timing loop of chunkSrtForKaraoke: chunk chunkIndex (0-based) of item
\* itemIndex (0-based).  With n chunks, total ms in all:
\*   startTimeSeconds = startTime + chunkIndex * (total / n)
\*   endTimeSeconds   = startTimeSeconds + max(total / n, minDuration)
KaraokeChunk(item, itemIndex, wordChunks, chunkIndex, opt) ==
    LET n == Len(wordChunks)
        total == item.endTime - item.startTime
        startNum == item.startTime * n + chunkIndex * total
        endNum == startNum + Max(total, opt.minDuration * n)
        startFrame == MathRound(startNum * opt.fps, 1000 * n)
        endFrame == MathRound(endNum * opt.fps, 1000 * n)
    IN  [ start |-> startFrame + chunkIndex * opt.gapFrames,
          end |-> endFrame + chunkIndex * opt.gapFrames,
          text |-> JoinWords(wordChunks[chunkIndex + 1]),
          originalSubtitleId |-> itemIndex + 1,
          chunkIndex |-> chunkIndex ]

\* one iteration of the item loop of chunkSrtForKaraoke
KaraokeItem(item, itemIndex, opt) ==
    IF item.startTime = 0 \/ item.endTime = 0 \/ Len(item.text) = 0 THEN <<>>
    ELSE LET cleanText == Trim(ReplaceNewlines(item.text))
             words == SplitWords(cleanText, <<>>)
         IN  IF Len(words) = 0 THEN <<>>
             ELSE LET wordChunks == GroupWords(words, 1, <<>>, <<>>, opt.maxChars)
                  IN  [k \in 1..Len(wordChunks) |->
                          KaraokeChunk(item, itemIndex, wordChunks, k - 1, opt)]

RECURSIVE KaraokeItems(_, _, _)
KaraokeItems(items, itemIndex, opt) ==
    IF itemIndex >= Len(items) THEN <<>>
    ELSE KaraokeItem(items[itemIndex + 1], itemIndex, opt)
         \o KaraokeItems(items, itemIndex + 1, opt)

\* items are the entries parseSRT returned for the SRT content
chunkSrtForKaraoke(items, opt) == KaraokeItems(items, 0, opt)

----------------------------------------------------------------------------
(* segmentedPromptsParser: the layout timeline *)

\* the mapping with an unknown label sent to the inset layout
getLayoutDefaultCircle(editingSuggestion) ==
    CASE editingSuggestion = "Narrator and video split screen" -> "bottom"
      [] editingSuggestion = "Narrator only on screen" -> "center"
      [] OTHER -> "circle"

getLayoutFromEditingSuggestion(editingSuggestion) ==
    CASE editingSuggestion = "Video only on screen" -> "circle"
      [] editingSuggestion = "Narrator and video split screen" -> "bottom"
      [] editingSuggestion = "Narrator only on screen" -> "center"
      [] OTHER -> "center"

\* An optional value (a field that may be undefined, a result that may be null)
\* is a sequence of no or one element.
undefined == <<>>
null == <<>>
Some(x) == <<x>>

\* the timeline.push of the segmented branch
SegmentEntry(phrase, segment) ==
    [ startTime |-> segment.timing.start_time,
      endTime |-> segment.timing.end_time,
      duration |-> segment.timing.duration,
      layout |-> getLayoutFromEditingSuggestion(segment.editing_suggestion),
      editingSuggestion |-> segment.editing_suggestion,
      phraseNumber |-> phrase.phrase_number,
      segmentNumber |-> Some(segment.segment_number) ]

\* the timeline.push of the non-segmented branch
PhraseEntry(phrase) ==
    [ startTime |-> phrase.timing.start_time,
      endTime |-> phrase.timing.end_time,
      duration |-> phrase.timing.duration,
      layout |-> getLayoutFromEditingSuggestion(phrase.editing_suggestion),
      editingSuggestion |-> phrase.editing_suggestion,
      phraseNumber |-> phrase.phrase_number,
      segmentNumber |-> undefined ]

\* the forEach body that pushes the parent range as well as the children
EmitPhraseWithParent(phrase) ==
    IF phrase.segmentation.needs_segmentation /\ phrase.segmentation.segments # undefined
    THEN LET segments == phrase.segmentation.segments[1]
         IN  <<PhraseEntry(phrase)>> \o
             [k \in 1..Len(segments) |-> SegmentEntry(phrase, segments[k])]
    ELSE <<PhraseEntry(phrase)>>

\* the body of the forEach over phrases_with_video_prompts
EmitPhrase(phrase) ==
    IF phrase.segmentation.needs_segmentation /\ phrase.segmentation.segments # undefined
    THEN LET segments == phrase.segmentation.segments[1]
         IN  [k \in 1..Len(segments) |-> SegmentEntry(phrase, segments[k])]
    ELSE <<PhraseEntry(phrase)>>

\* the timeline before it is sorted
RECURSIVE EmitAll(_)
EmitAll(phrases) ==
    IF Len(phrases) = 0 THEN <<>>
    ELSE EmitPhrase(Head(phrases)) \o EmitAll(Tail(phrases))

\* insertion that puts a segment before the segments of equal startTime
RECURSIVE InsertBeforeEqual(_, _)
InsertBeforeEqual(sorted, seg) ==
    IF Len(sorted) = 0 THEN <<seg>>
    ELSE IF seg.startTime - Head(sorted).startTime <= 0 THEN <<seg>> \o sorted
    ELSE <<Head(sorted)>> \o InsertBeforeEqual(Tail(sorted), seg)

\* insertion under the comparator (a, b) => a.startTime - b.startTime: a segment
\* goes before the first one that compares greater, hence after its equals
RECURSIVE InsertByStartTime(_, _)
InsertByStartTime(sorted, seg) ==
    IF Len(sorted) = 0 THEN <<seg>>
    ELSE IF seg.startTime - Head(sorted).startTime < 0 THEN <<seg>> \o sorted
    ELSE <<Head(sorted)>> \o InsertByStartTime(Tail(sorted), seg)

\* the timeline left in its order of emission
UnsortedTimeline(list, sorted) == sorted \o list

\* timeline.sort((a, b) => a.startTime - b.startTime); Array.prototype.sort is stable
RECURSIVE SortByStartTime(_, _)
SortByStartTime(list, sorted) ==
    IF Len(list) = 0 THEN sorted
    ELSE SortByStartTime(Tail(list), InsertByStartTime(sorted, Head(list)))

parseSegmentedPrompts(phrases) == SortByStartTime(EmitAll(phrases), <<>>)

\* A record of the descriptor is a TLA+ record; a field the JSON document
\* leaves out is a field the record does not have.
HasField(rec, field) == field \in DOMAIN rec

\* whether the forEach body raises a TypeError on the phrase: it reads
\* phrase.segmentation.needs_segmentation, then either segment.timing.start_time
\* of each child or phrase.timing.start_time
PhraseThrows(phrase) ==
    IF ~HasField(phrase, "segmentation") THEN TRUE
    ELSE IF phrase.segmentation.needs_segmentation
            /\ phrase.segmentation.segments # undefined
         THEN \E k \in DOMAIN phrase.segmentation.segments[1] :
                ~HasField(phrase.segmentation.segments[1][k], "timing")
         ELSE ~HasField(phrase, "timing")

\* whether parseSegmentedPrompts raises: nothing in it catches
ParseThrows(phrases) == \E k \in DOMAIN phrases : PhraseThrows(phrases[k])

\* try { return parseSegmentedPrompts(data) } catch { return [] }
loadSegmentedPrompts(phrases) ==
    IF ParseThrows(phrases) THEN <<>> ELSE parseSegmentedPrompts(phrases)

\* the predicate of getActiveSegment at currentTime = num/den seconds,
\* segment times being in milliseconds
SegmentContains(segment, num, den) ==
    /\ 1000 * num >= segment.startTime * den
    /\ 1000 * num <= segment.endTime * den

\* getActiveSegment with the end of the range excluded
RECURSIVE getActiveSegmentEndExclusive(_, _, _)
getActiveSegmentEndExclusive(tl, num, den) ==
    IF Len(tl) = 0 THEN null
    ELSE IF 1000 * num >= Head(tl).startTime * den /\ 1000 * num < Head(tl).endTime * den
         THEN Some(Head(tl))
         ELSE getActiveSegmentEndExclusive(Tail(tl), num, den)

\* timeline.find(...) || null
RECURSIVE getActiveSegment(_, _, _)
getActiveSegment(tl, num, den) ==
    IF Len(tl) = 0 THEN null
    ELSE IF SegmentContains(Head(tl), num, den) THEN Some(Head(tl))
    ELSE getActiveSegment(Tail(tl), num, den)

\* activeSegment?.layout || 'center'
LayoutOf(segment) == IF segment = null THEN "center" ELSE segment[1].layout

\* the frame rate of the compositions
VideoFps == 30

----------------------------------------------------------------------------
(* Inputs of the chunkers *)

Texts == UNION {[1..n -> Alphabet] : n \in 0..MaxTextLen}

StandardBreakPriority == <<" ", ",", ".", ";", ":", "!", "?">>

Cues == { [id |-> 1, startTime |-> s, endTime |-> e, text |-> t] :
            s \in TimesMs, e \in {x \in TimesMs : x > 0}, t \in Texts }

ValidCue(cue) == cue.startTime >= 0 /\ cue.endTime > cue.startTime

Configs == { [maxChars |-> m, minDuration |-> d, fps |-> f, gapFrames |-> g,
              wordBreakPriority |-> StandardBreakPriority] :
               m \in 1..MaxCharsBound, d \in MinDurationsMs, f \in FpsSet, g \in 0..MaxGap }

\* the fixtures of the karaoke system tests
mockSubtitles ==
    << [id |-> 1, startTime |-> 1000, endTime |-> 3000,
        text |-> <<"H", "o", "l", "a", " ", "m", "u", "n", "d", "o", ",", " ", "e", "s", "t",
                   "o", " ", "e", "s", " ", "u", "n", "a", " ", "p", "r", "u", "e", "b", "a">>],
       [id |-> 2, startTime |-> 4000, endTime |-> 7000,
        text |-> <<"D", "e", " ", "n", "u", "e", "s", "t", "r", "o", " ", "s", "i", "s", "t",
                   "e", "m", "a", " ", "d", "e", " ", "s", "u", "b", "t", "i", "t", "u", "l",
                   "o", "s", " ", "k", "a", "r", "a", "o", "k", "e">>],
       [id |-> 3, startTime |-> 8000, endTime |-> 10000,
        text |-> <<"C", "o", "n", " ", "d", "i", "f", "e", "r", "e", "n", "t", "e", "s", " ",
                   "c", "o", "n", "f", "i", "g", "u", "r", "a", "c", "i", "o", "n", "e", "s">>] >>

shortChunkConfig ==
    [maxChars |-> 5, minDuration |-> 1000, fps |-> 30, gapFrames |-> 2,
     wordBreakPriority |-> StandardBreakPriority]

longChunkConfig ==
    [maxChars |-> 15, minDuration |-> 2000, fps |-> 30, gapFrames |-> 0,
     wordBreakPriority |-> StandardBreakPriority]

----------------------------------------------------------------------------
(* The chunkers applied to a subtitle list *)

\* the animations of the default template
defaultAnimations == [duration |-> 300, easing |-> "ease-out"]

RendererIdle ==
    /\ animations = defaultAnimations
    /\ activeChunk = null
    /\ fadeInProgress = undefined
    /\ fadeOutProgress = undefined
    /\ opacity = undefined
    /\ testFrame = 0
    /\ karaokeCurrent = null

DurationIdle ==
    /\ fetchOk = TRUE
    /\ durationFps = VideoFps
    /\ subtitleDuration = undefined
    /\ videoDuration = undefined
    /\ sequencedDuration = undefined

TemplateIdle ==
    /\ templateFile = undefined
    /\ templateConfig = null
    /\ karaokeOptions = [fps |-> VideoFps]

LoaderIdle ==
    /\ component = "DynamicVideo"
    /\ requested = 0
    /\ loads = <<>>
    /\ loading = TRUE
    /\ error = null

SplitIdle ==
    /\ splitText = <<>>
    /\ splitRemaining = <<>>
    /\ splitChunks = <<>>
    /\ splitPc = "returned"

ExtensionIdle ==
    /\ DurationIdle
    /\ TemplateIdle
    /\ LoaderIdle
    /\ SplitIdle

TimelineIdle ==
    /\ data = <<>>
    /\ timeline = <<>>
    /\ loaded = FALSE
    /\ frame = 0
    /\ activeSegment = null
    /\ currentLayout = "center"

Init ==
    /\ \/ \E cue \in Cues : ValidCue(cue) /\ subtitles = <<cue>> /\ config \in Configs
       \/ subtitles = mockSubtitles /\ config \in {shortChunkConfig, longChunkConfig}
    /\ chunks = <<>>
    /\ karaokeChunks = <<>>
    /\ done = {}
    /\ TimelineIdle
    /\ RendererIdle
    /\ srtContent = <<>>
    /\ ExtensionIdle

RunChunkSRT ==
    /\ "chunkSRT" \notin done
    /\ chunks' = chunkSRT(subtitles, config)
    /\ done' = done \cup {"chunkSRT"}
    /\ UNCHANGED <<subtitles, config, karaokeChunks>>
    /\ UNCHANGED timelineVars
    /\ UNCHANGED rendererVars
    /\ UNCHANGED srtContent
    /\ UNCHANGED extensionVars

RunChunkSrtForKaraoke ==
    /\ "karaoke" \notin done
    /\ karaokeChunks' = chunkSrtForKaraoke(subtitles, config)
    /\ done' = done \cup {"karaoke"}
    /\ UNCHANGED <<subtitles, config, chunks>>
    /\ UNCHANGED timelineVars
    /\ UNCHANGED rendererVars
    /\ UNCHANGED srtContent
    /\ UNCHANGED extensionVars

Next == RunChunkSRT \/ RunChunkSrtForKaraoke

Spec == Init /\ [][Next]_vars

----------------------------------------------------------------------------
(* Properties of the chunkers *)

\* f is the integer nearest to num/den, halves upward: f - 1/2 <= num/den < f + 1/2
IsRounded(f, num, den) == 2 * den * f - den <= 2 * num /\ 2 * num < 2 * den * f + den

CueStartFrame(f, cue) == IsRounded(f, cue.startTime * config.fps, 1000)
CueEndFrame(f, cue) == IsRounded(f, cue.endTime * config.fps, 1000)

ChunkOfCue(cue, c) == c.originalSubtitle = cue.id
ChunksOf(cue) == SelectSeq(chunks, LAMBDA c : ChunkOfCue(cue, c))
KaraokeChunksOf(i) == SelectSeq(karaokeChunks, LAMBDA c : c.originalSubtitleId = i)
CueSet == {subtitles[i] : i \in DOMAIN subtitles}
RanChunkSRT == "chunkSRT" \in done
RanKaraoke == "karaoke" \in done
MinFrames(f) == IsRounded(f, config.minDuration * config.fps, 1000)

\* C1: a cue whose trimmed text has at most maxChars characters yields exactly
\* one chunk from chunkSRT, from round(startTime*fps) to round(endTime*fps),
\* with chunkIndex 0 and totalChunks 1.
C1_ShortCueOneChunk ==
    RanChunkSRT =>
        \A cue \in CueSet :
            Len(Trim(cue.text)) <= config.maxChars =>
                LET cs == ChunksOf(cue)
                IN  /\ Len(cs) = 1
                    /\ CueStartFrame(cs[1].startFrame, cue)
                    /\ CueEndFrame(cs[1].endFrame, cue)
                    /\ cs[1].chunkIndex = 0
                    /\ cs[1].totalChunks = 1

\* a short cue with visible text whose start time is not a whole frame was chunked
C1_Witness ==
    /\ RanChunkSRT
    /\ \E cue \in CueSet :
        /\ Len(Trim(cue.text)) \in 1..config.maxChars
        /\ (cue.startTime * config.fps) % 1000 >= 500
        /\ Len(ChunksOf(cue)) = 1

\* C2: when chunkSRT splits a cue into two or more chunks, the first chunk
\* starts at round(startTime*fps) and the last chunk ends at round(endTime*fps),
\* whatever minDuration and gapFrames are.
C2_EndsPinned ==
    RanChunkSRT =>
        \A cue \in CueSet :
            LET cs == ChunksOf(cue)
            IN  Len(cs) >= 2 =>
                    /\ CueStartFrame(cs[1].startFrame, cue)
                    /\ CueEndFrame(cs[Len(cs)].endFrame, cue)

\* a split cue with a gap, whose chunks were stretched so far that the last
\* chunk would have ended elsewhere
C2_Witness ==
    /\ RanChunkSRT
    /\ config.gapFrames > 0
    /\ \E cue \in CueSet :
        LET cs == ChunksOf(cue)
        IN  /\ Len(cs) >= 2
            /\ cs[Len(cs)].endFrame - cs[Len(cs)].startFrame
                 # cs[1].endFrame - cs[1].startFrame

\* C3: every chunk chunkSRT returns for a cue with endTime > startTime >= 0 has
\* startFrame >= 0 and endFrame > startFrame.
C3_FramesOrdered ==
    RanChunkSRT =>
        \A k \in DOMAIN chunks :
            chunks[k].startFrame >= 0 /\ chunks[k].endFrame > chunks[k].startFrame

C5_MinDurationBothChunkers ==
    /\ RanChunkSRT =>
        \A cue \in CueSet :
            LET cs == ChunksOf(cue)
            IN  Len(cs) >= 2 =>
                    \A k \in 1..(Len(cs) - 1) :
                        \E m \in 0..(cs[k].endFrame - cs[k].startFrame) : MinFrames(m)
    /\ RanKaraoke =>
        \A i \in DOMAIN subtitles :
            LET ks == KaraokeChunksOf(i)
            IN  Len(ks) >= 2 =>
                    \A k \in 1..Len(ks) :
                        \E m \in 0..(ks[k].end - ks[k].start) : MinFrames(m)

\* C6: when chunkSrtForKaraoke splits a cue into word chunks, the first chunk
\* starts at round(startTime*fps) and the last ends at round(endTime*fps).
C6_KaraokeEndsPinned ==
    RanKaraoke =>
        \A i \in DOMAIN subtitles :
            LET ks == KaraokeChunksOf(i)
            IN  Len(ks) >= 1 =>
                    /\ CueStartFrame(ks[1].start, subtitles[i])
                    /\ CueEndFrame(ks[Len(ks)].end, subtitles[i])

\* C7: the cue 1.0-3.0 "Hola mundo, esto es una prueba" under maxChars 5,
\* minDuration 1.0, fps 30, gapFrames 2 yields at least 5 chunks from chunkSRT,
\* the first starting at frame 30 and the last ending at frame 90.
C7_Scenario ==
    (RanChunkSRT /\ subtitles = mockSubtitles /\ config = shortChunkConfig) =>
        LET cs == ChunksOf(mockSubtitles[1])
        IN  /\ Len(cs) >= 5
            /\ cs[1].startFrame = 30
            /\ cs[Len(cs)].endFrame = 90

\* the scenario's cue has been chunked under the scenario's configuration
C7_Witness ==
    /\ RanChunkSRT
    /\ subtitles = mockSubtitles
    /\ config = shortChunkConfig
    /\ Len(chunks) > 0

\* C8: a cue with no words yields no chunk from chunkSRT nor from
\* chunkSrtForKaraoke, so every chunk of either has non-empty trimmed text.
C8_NoChunkWithoutWords ==
    /\ RanChunkSRT =>
        /\ \A cue \in CueSet : Len(Trim(cue.text)) = 0 => Len(ChunksOf(cue)) = 0
        /\ \A k \in DOMAIN chunks : Len(Trim(chunks[k].text)) > 0
    /\ RanKaraoke =>
        /\ \A i \in DOMAIN subtitles :
            Len(Trim(subtitles[i].text)) = 0 => Len(KaraokeChunksOf(i)) = 0
        /\ \A k \in DOMAIN karaokeChunks : Len(Trim(karaokeChunks[k].text)) > 0

----------------------------------------------------------------------------
(* SequencedVideo over a timeline descriptor *)

MaxPhrases == 2
MaxFrame == 6

SegmentTimesMs == {0, 100, 200}
Labels == {"Video only on screen", "Unknown label"}

Timing(s, e) == [start_time |-> s, end_time |-> e, duration |-> e - s]

SplitInTwo ==
    << [segment_number |-> 1, timing |-> Timing(0, 100),
        editing_suggestion |-> "Narrator only on screen"],
       [segment_number |-> 2, timing |-> Timing(0, 200),
        editing_suggestion |-> "Narrator and video split screen"] >>

Segmentations ==
    { [needs_segmentation |-> n, segments |-> c] :
        n \in BOOLEAN, c \in {undefined, Some(SplitInTwo)} }
    \cup { [needs_segmentation |-> TRUE, segments |-> Some(<<>>)] }

\* a phrase record, still without its number
PhraseShapes ==
    { [timing |-> Timing(s, e), editing_suggestion |-> l, segmentation |-> g] :
        s \in SegmentTimesMs, e \in {x \in SegmentTimesMs : x > 0}, l \in Labels,
        g \in Segmentations }

ValidPhraseShapes == {q \in PhraseShapes : q.timing.start_time < q.timing.end_time}

\* the phrase of shape q that appears n-th in the document
Phrase(q, n) ==
    [ phrase_number |-> n, timing |-> q.timing,
      editing_suggestion |-> q.editing_suggestion, segmentation |-> q.segmentation ]

ChunkersIdle ==
    /\ subtitles = <<>>
    /\ config = shortChunkConfig
    /\ chunks = <<>>
    /\ karaokeChunks = <<>>
    /\ done = {}

\* the two overlapping segments [0,5] -> split screen and [2,8] -> inset
SplitScreenPhrase ==
    [ timing |-> Timing(0, 5000),
      editing_suggestion |-> "Narrator and video split screen",
      segmentation |-> [needs_segmentation |-> FALSE, segments |-> undefined] ]

InsetPhrase ==
    [ timing |-> Timing(2000, 8000),
      editing_suggestion |-> "Video only on screen",
      segmentation |-> [needs_segmentation |-> FALSE, segments |-> undefined] ]

OverlapForward == << Phrase(SplitScreenPhrase, 1), Phrase(InsetPhrase, 2) >>
OverlapReversed == << Phrase(InsetPhrase, 1), Phrase(SplitScreenPhrase, 2) >>

\* the frame of t = 3 s
ScenarioFrame == 3 * VideoFps

Frames == 0..MaxFrame \cup {ScenarioFrame}

InitTimeline ==
    /\ ChunkersIdle
    /\ \/ \E n \in 0..MaxPhrases :
            \E shapes \in [1..n -> ValidPhraseShapes] :
                data = [k \in 1..n |-> Phrase(shapes[k], k)]
       \/ data \in {OverlapForward, OverlapReversed}
    /\ timeline = <<>>
    /\ loaded = FALSE
    /\ frame = 0
    /\ activeSegment = null
    /\ currentLayout = "center"
    /\ RendererIdle
    /\ srtContent = <<>>
    /\ ExtensionIdle

\* loadData of SequencedVideo with both fetches answered: setTimeline and the
\* render that follows it
LoadData ==
    /\ ~loaded
    /\ timeline' = loadSegmentedPrompts(data)
    /\ loaded' = TRUE
    /\ activeSegment' = getActiveSegment(timeline', frame, VideoFps)
    /\ currentLayout' = LayoutOf(activeSegment')
    /\ UNCHANGED <<data, frame>>
    /\ UNCHANGED chunkVars
    /\ UNCHANGED rendererVars
    /\ UNCHANGED srtContent
    /\ UNCHANGED extensionVars

\* a render of SequencedVideo at frame f, past the loading screen:
\* currentTime = frame / fps
RenderFrame ==
    /\ loaded
    /\ \E f \in Frames :
        /\ frame' = f
        /\ activeSegment' = getActiveSegment(timeline, f, VideoFps)
    /\ currentLayout' = LayoutOf(activeSegment')
    /\ UNCHANGED <<data, timeline, loaded>>
    /\ UNCHANGED chunkVars
    /\ UNCHANGED rendererVars
    /\ UNCHANGED srtContent
    /\ UNCHANGED extensionVars

NextTimeline == LoadData \/ RenderFrame

SpecTimeline == InitTimeline /\ [][NextTimeline]_vars

----------------------------------------------------------------------------
(* Properties of the timeline *)

\* the position of a segment in the order of emission
EmissionIndex(seg) == CHOOSE k \in DOMAIN EmitAll(data) : EmitAll(data)[k] = seg

\* the segments of the stored timeline that contain the time frame / fps
Containing ==
    { i \in DOMAIN timeline :
        /\ timeline[i].startTime * VideoFps <= 1000 * frame
        /\ 1000 * frame <= timeline[i].endTime * VideoFps }

\* C9: whatever the order of the phrase records, the list parseSegmentedPrompts
\* returns is a permutation of the emitted segments, ascending in startTime,
\* with segments of equal startTime in their order of emission.
C9_SortedStablePermutation ==
    loaded =>
        LET emitted == EmitAll(data)
        IN  /\ Len(timeline) = Len(emitted)
            /\ \A k \in DOMAIN emitted :
                Cardinality({i \in DOMAIN timeline : timeline[i] = emitted[k]})
                  = Cardinality({j \in DOMAIN emitted : emitted[j] = emitted[k]})
            /\ \A i, j \in DOMAIN timeline :
                i < j =>
                    /\ timeline[i].startTime <= timeline[j].startTime
                    /\ timeline[i].startTime = timeline[j].startTime =>
                         EmissionIndex(timeline[i]) < EmissionIndex(timeline[j])

\* a timeline was resolved whose segments were emitted out of order and of
\* which two start at the same time
C9_Witness ==
    /\ loaded
    /\ timeline # EmitAll(data)
    /\ \E i, j \in DOMAIN timeline :
        i < j /\ timeline[i].startTime = timeline[j].startTime

\* C10: the active segment of a frame is the first segment in list order whose
\* range contains frame/fps, both ends included, and null when there is none;
\* when exactly one segment contains the time it is that one; with a null
\* active segment the layout of the frame is 'center'.
C10_ActiveSegmentFirstContaining ==
    /\ Containing = {} => activeSegment = null /\ currentLayout = "center"
    /\ Containing # {} =>
        \E i \in Containing :
            /\ \A j \in Containing : i <= j
            /\ activeSegment = Some(timeline[i])
            /\ currentLayout = timeline[i].layout
    /\ Cardinality(Containing) = 1 =>
        \A i \in Containing : activeSegment = Some(timeline[i])

\* a frame that falls exactly on the end of the first of several segments that
\* contain it, the layout being another than the default
C10_Witness ==
    /\ loaded
    /\ Cardinality(Containing) >= 2
    /\ activeSegment # null
    /\ 1000 * frame = activeSegment[1].endTime * VideoFps
    /\ currentLayout # "center"

\* a frame that no segment of a resolved, non-empty timeline contains
C10_WitnessNull ==
    /\ loaded
    /\ Len(timeline) > 0
    /\ Containing = {}
    /\ activeSegment = null

\* C11: at a time covered by overlapping segments the active segment is one
\* of earliest startTime among those that contain the time; for the segments
\* [0,5] -> split screen and [2,8] -> inset, given in either order, the frame
\* of t = 3 s has the split-screen segment active and the layout 'bottom'.
C11_EarlierStartWins ==
    loaded =>
        /\ Cardinality(Containing) >= 2 =>
            /\ activeSegment # null
            /\ \A i \in Containing : activeSegment[1].startTime <= timeline[i].startTime
        /\ data \in {OverlapForward, OverlapReversed} /\ frame = ScenarioFrame =>
            /\ activeSegment # null
            /\ activeSegment[1].startTime = 0
            /\ activeSegment[1].endTime = 5000
            /\ activeSegment[1].editingSuggestion = "Narrator and video split screen"
            /\ currentLayout = "bottom"

\* the inset segment was given first and the frame of t = 3 s, which both
\* segments contain, shows the split screen
C11_Witness ==
    /\ loaded
    /\ data = OverlapReversed
    /\ frame = ScenarioFrame
    /\ Cardinality(Containing) = 2
    /\ currentLayout = "bottom"

LayoutType == {"center", "bottom", "circle"}

\* C12: every segment of the timeline carries the layout its label maps to:
\* 'Video only on screen' -> 'circle', 'Narrator and video split screen' ->
\* 'bottom', 'Narrator only on screen' -> 'center', any other label ->
\* 'center'; a layout is always one of the three.
C12_LayoutTotalMapping ==
    /\ currentLayout \in LayoutType
    /\ \A i \in DOMAIN timeline :
        LET label == timeline[i].editingSuggestion
            layout == timeline[i].layout
        IN  /\ layout \in LayoutType
            /\ label = "Video only on screen" => layout = "circle"
            /\ label = "Narrator and video split screen" => layout = "bottom"
            /\ label = "Narrator only on screen" => layout = "center"
            /\ label \notin {"Video only on screen", "Narrator and video split screen",
                             "Narrator only on screen"} => layout = "center"

\* a timeline that holds a segment of unknown label next to a split-screen one
C12_Witness ==
    /\ loaded
    /\ \E i, j \in DOMAIN timeline :
        /\ timeline[i].editingSuggestion = "Unknown label"
        /\ timeline[i].layout = "center"
        /\ timeline[j].layout = "bottom"

\* the segments of the timeline that come from phrase number n
SegmentsOfPhrase(n) == SelectSeq(timeline, LAMBDA seg : seg.phraseNumber = n)

\* whether the phrase is emitted as its children
EmitsChildren(phrase) ==
    phrase.segmentation.needs_segmentation /\ phrase.segmentation.segments # undefined

\* the number of segments a phrase contributes
EmittedCount(phrase) ==
    IF EmitsChildren(phrase) THEN Len(phrase.segmentation.segments[1]) ELSE 1

RECURSIVE SumOfCounts(_)
SumOfCounts(phrases) ==
    IF Len(phrases) = 0 THEN 0
    ELSE EmittedCount(Head(phrases)) + SumOfCounts(Tail(phrases))

\* C13: a phrase with needs_segmentation true and children supplied
\* contributes one segment per child, with the child's range and label, and no
\* segment of the parent; any other phrase contributes exactly one segment with
\* the parent's range and label; the timeline is as long as the sum of these.
C13_ChildrenOrParent ==
    loaded =>
        /\ Len(timeline) = SumOfCounts(data)
        /\ \A n \in DOMAIN data :
            LET phrase == data[n]
                emitted == SegmentsOfPhrase(n)
            IN  IF EmitsChildren(phrase)
                THEN LET children == phrase.segmentation.segments[1]
                     IN  /\ Len(emitted) = Len(children)
                         /\ \A k \in DOMAIN emitted : emitted[k].segmentNumber # undefined
                         /\ \A c \in DOMAIN children :
                             Cardinality({k \in DOMAIN emitted :
                                 /\ emitted[k].segmentNumber = Some(children[c].segment_number)
                                 /\ emitted[k].startTime = children[c].timing.start_time
                                 /\ emitted[k].endTime = children[c].timing.end_time
                                 /\ emitted[k].editingSuggestion =
                                      children[c].editing_suggestion}) = 1
                ELSE /\ Len(emitted) = 1
                     /\ emitted[1].segmentNumber = undefined
                     /\ emitted[1].startTime = phrase.timing.start_time
                     /\ emitted[1].endTime = phrase.timing.end_time
                     /\ emitted[1].editingSuggestion = phrase.editing_suggestion

\* one phrase was emitted as its two children, whose ranges differ from the
\* parent's, and another, flagged but without children, as its own range
C13_Witness ==
    /\ loaded
    /\ Len(data) = 2
    /\ Len(timeline) = 3
    /\ \E n, m \in DOMAIN data :
        /\ EmitsChildren(data[n])
        /\ data[n].timing.start_time = 100
        /\ Len(SegmentsOfPhrase(n)) = 2
        /\ data[m].segmentation.needs_segmentation
        /\ data[m].segmentation.segments = undefined
        /\ Len(SegmentsOfPhrase(m)) = 1

----------------------------------------------------------------------------
(* SequencedVideo over a descriptor with records that lack a field *)

ParentOnly == [needs_segmentation |-> FALSE, segments |-> undefined]

\* two children of which the second has no timing
SplitWithUntimedChild ==
    << SplitInTwo[1],
       [segment_number |-> 2, editing_suggestion |-> "Video only on screen"] >>

DescriptorShapes ==
    { \* well formed, emitted as its own range
      [timing |-> Timing(0, 100), editing_suggestion |-> "Video only on screen",
       segmentation |-> ParentOnly],
      \* well formed, emitted as its children
      [timing |-> Timing(100, 200), editing_suggestion |-> "Unknown label",
       segmentation |-> [needs_segmentation |-> TRUE, segments |-> Some(SplitInTwo)]],
      \* no segmentation
      [timing |-> Timing(0, 200), editing_suggestion |-> "Video only on screen"],
      \* no timing, not segmented
      [editing_suggestion |-> "Video only on screen", segmentation |-> ParentOnly],
      \* no timing, emitted as its children
      [editing_suggestion |-> "Video only on screen",
       segmentation |-> [needs_segmentation |-> TRUE, segments |-> Some(SplitInTwo)]],
      \* a child without timing
      [timing |-> Timing(0, 200), editing_suggestion |-> "Video only on screen",
       segmentation |-> [needs_segmentation |-> TRUE,
                         segments |-> Some(SplitWithUntimedChild)]] }

\* the record of shape q that appears n-th in the document
Numbered(q, n) == [phrase_number |-> n] @@ q

InitDescriptor ==
    /\ ChunkersIdle
    /\ \E n \in 0..MaxPhrases :
        \E shapes \in [1..n -> DescriptorShapes] :
            data = [k \in 1..n |-> Numbered(shapes[k], k)]
    /\ timeline = <<>>
    /\ loaded = FALSE
    /\ frame = 0
    /\ activeSegment = null
    /\ currentLayout = "center"
    /\ RendererIdle
    /\ srtContent = <<>>
    /\ ExtensionIdle

SpecDescriptor == InitDescriptor /\ [][NextTimeline]_vars

\* a record that has its timing and segmentation fields, and whose children
\* have their timing
WellFormed(phrase) ==
    /\ HasField(phrase, "timing")
    /\ HasField(phrase, "segmentation")
    /\ phrase.segmentation.segments # undefined =>
         \A k \in DOMAIN phrase.segmentation.segments[1] :
            HasField(phrase.segmentation.segments[1][k], "timing")

\* C14: once the descriptor is loaded, every well-formed record has its
\* segments in the timeline, whatever malformed records the document holds
\* besides, and a malformed record has none.
C14_MalformedRecordSkipped ==
    loaded =>
        \A n \in DOMAIN data :
            IF WellFormed(data[n])
            THEN Len(SegmentsOfPhrase(n)) = EmittedCount(data[n])
            ELSE Len(SegmentsOfPhrase(n)) = 0

----------------------------------------------------------------------------
(* SubtitleRenderer and the active-chunk lookups *)

\* the lookup that returns the last chunk containing the frame
RECURSIVE getLastActiveChunk(_, _)
getLastActiveChunk(list, currentFrame) ==
    IF Len(list) = 0 THEN null
    ELSE LET last == list[Len(list)]
         IN  IF currentFrame >= last.startFrame /\ currentFrame <= last.endFrame
             THEN Some(last)
             ELSE getLastActiveChunk(SubSeq(list, 1, Len(list) - 1), currentFrame)

\* chunks.find(chunk => frame >= chunk.startFrame && frame <= chunk.endFrame),
\* of getActiveChunk and, written out again, of SubtitleRenderer
RECURSIVE getActiveChunk(_, _)
getActiveChunk(list, currentFrame) ==
    IF Len(list) = 0 THEN null
    ELSE IF currentFrame >= Head(list).startFrame /\ currentFrame <= Head(list).endFrame
         THEN Some(Head(list))
         ELSE getActiveChunk(Tail(list), currentFrame)

\* chunks.filter(chunk => frame >= chunk.start && frame <= chunk.end)
getActiveChunks(list, f) == SelectSeq(list, LAMBDA chunk : f >= chunk.start /\ f <= chunk.end)

\* activeChunks.length > 0 ? activeChunks[0] : null
getCurrentChunk(list, f) ==
    LET activeChunks == getActiveChunks(list, f)
    IN  IF Len(activeChunks) > 0 THEN Some(activeChunks[1]) ELSE null

\* Progress and opacity are fixed-point numbers: the value v stands for v / Unit.
Unit == 100

\* Easing.ease is the cubic Bezier curve of control points (0.42, 0) and (1, 1):
\*   x(s) = 1.26 s (1-s)^2 + 3 s^2 (1-s) + s^3,  y(s) = 3 s^2 (1-s) + s^3.
\* EaseBezierX(s) is 100 * Unit^3 * x(s / Unit), EaseBezierY(s) is Unit^3 * y(s / Unit).
EaseBezierX(s) == 126 * s * (Unit - s) * (Unit - s) + 300 * s * s * (Unit - s) + 100 * s * s * s
EaseBezierY(s) == 3 * s * s * (Unit - s) + s * s * s

\* the curve parameter of abscissa x, to the resolution 1 / Unit: the greatest
\* s of lo..hi with x(s) <= x, found by bisection (x(lo) <= x is kept)
RECURSIVE EaseSearch(_, _, _)
EaseSearch(lo, hi, x) ==
    IF lo >= hi THEN lo
    ELSE LET mid == (lo + hi + 1) \div 2
         IN  IF EaseBezierX(mid) <= 100 * Unit * Unit * x
             THEN EaseSearch(mid, hi, x)
             ELSE EaseSearch(lo, mid - 1, x)

EaseParameter(x) == EaseSearch(0, Unit, x)

\* the curve returns its argument at 0 and at 1
Ease(x) ==
    IF x = 0 THEN 0
    ELSE IF x = Unit THEN Unit
    ELSE EaseBezierY(EaseParameter(x)) \div (Unit * Unit)

\* Easing.in(e) = e, Easing.out(e)(t) = 1 - e(1 - t),
\* Easing.inOut(e)(t) = t < 0.5 ? e(2t) / 2 : 1 - e(2(1 - t)) / 2
EaseOut(x) == Unit - Ease(Unit - x)
EaseInOut(x) ==
    IF 2 * x < Unit THEN Ease(2 * x) \div 2 ELSE Unit - Ease(2 * (Unit - x)) \div 2

\* easingMap[easingName] || Easing.out(Easing.ease)
getEasing(easingName) ==
    IF easingName \in {"ease-in", "ease-out", "ease-in-out", "linear"}
    THEN easingName ELSE "ease-out"

ApplyEasing(easing, x) ==
    CASE easing = "linear" -> x
      [] easing = "ease-in" -> Ease(x)
      [] easing = "ease-in-out" -> EaseInOut(x)
      [] OTHER -> EaseOut(x)

\* interpolate that extends its line beyond the input range
interpolateExtend(input, inputMin, inputMax, outputMin, outputMax, easing) ==
    LET t == ((input - inputMin) * Unit) \div (inputMax - inputMin)
        eased == IF t < 0 \/ t > Unit THEN t ELSE ApplyEasing(easing, t)
    IN  outputMin + (eased * (outputMax - outputMin)) \div Unit

\* interpolate(input, [inputMin, inputMax], [outputMin, outputMax],
\*   {extrapolateLeft: 'clamp', extrapolateRight: 'clamp', easing}), inputMin < inputMax
interpolate(input, inputMin, inputMax, outputMin, outputMax, easing) ==
    LET clamped == Min(Max(input, inputMin), inputMax)
        t == ((clamped - inputMin) * Unit) \div (inputMax - inputMin)
        eased == ApplyEasing(easing, t)
    IN  outputMin + (eased * (outputMax - outputMin)) \div Unit

\* Math.round(config.animations.duration * fps)
animationDurationFrames(anim, fps) == MathRound(anim.duration * fps, 1000)

\* the opacity taken as the larger of the two curves
OpacityOfLarger(fadeIn, fadeOut) == Max(fadeIn, fadeOut)

\* Math.min(fadeInProgress, fadeOutProgress)
Opacity(fadeIn, fadeOut) == Min(fadeIn, fadeOut)

MaxSubtitleFrame == 16

AnimationDurationsMs == {100, 300}
EasingNames == {"linear", "ease-in", "ease-out", "ease-in-out", "bounce"}

RendererCues ==
    { [id |-> 1, startTime |-> 0, endTime |-> 300, text |-> <<"a", " ", "a">>],
      [id |-> 2, startTime |-> 100, endTime |-> 500, text |-> <<"a", " ", "a">>],
      [id |-> 3, startTime |-> 300, endTime |-> 500, text |-> <<"a">>],
      [id |-> 4, startTime |-> 0, endTime |-> 500, text |-> <<"a">>] }

RendererConfigs ==
    { [maxChars |-> 1, minDuration |-> 50, fps |-> VideoFps, gapFrames |-> g,
       wordBreakPriority |-> StandardBreakPriority] : g \in 0..1 }

\* DynamicVideo with a subtitle list and a template whose animations vary
InitRenderer ==
    /\ \E n \in 1..2 : subtitles \in [1..n -> RendererCues]
    /\ config \in RendererConfigs
    /\ chunks = <<>>
    /\ karaokeChunks = <<>>
    /\ done = {}
    /\ TimelineIdle
    /\ animations \in [duration : AnimationDurationsMs, easing : EasingNames]
    /\ activeChunk = null
    /\ fadeInProgress = undefined
    /\ fadeOutProgress = undefined
    /\ opacity = undefined
    /\ testFrame = 0
    /\ karaokeCurrent = null
    /\ srtContent = <<>>
    /\ ExtensionIdle

\* a render of SubtitleRenderer at frame f, once DynamicVideo has its chunks
RenderSubtitle ==
    /\ "chunkSRT" \in done
    /\ \E f \in 0..MaxSubtitleFrame :
        /\ frame' = f
        /\ activeChunk' = getActiveChunk(chunks, f)
    /\ IF activeChunk' = null
       THEN /\ fadeInProgress' = undefined
            /\ fadeOutProgress' = undefined
            /\ opacity' = undefined
       ELSE LET chunk == activeChunk'[1]
                frames == animationDurationFrames(animations, VideoFps)
                easing == getEasing(animations.easing)
            IN  /\ fadeInProgress' =
                     Some(interpolate(frame', chunk.startFrame, chunk.startFrame + frames,
                                      0, Unit, easing))
                /\ fadeOutProgress' =
                     Some(interpolate(frame', chunk.endFrame - frames, chunk.endFrame,
                                      Unit, 0, easing))
                /\ opacity' = Some(Opacity(fadeInProgress'[1], fadeOutProgress'[1]))
    /\ done' = done \cup {"render"}
    /\ UNCHANGED <<subtitles, config, chunks, karaokeChunks>>
    /\ UNCHANGED <<data, timeline, loaded, activeSegment, currentLayout>>
    /\ UNCHANGED <<animations, testFrame, karaokeCurrent, srtContent>>
    /\ UNCHANGED extensionVars

\* getCurrentChunk(chunks, testFrame) on the chunks of chunkSrtForKaraoke
RunGetCurrentChunk ==
    /\ "karaoke" \in done
    /\ \E f \in 0..MaxSubtitleFrame :
        /\ testFrame' = f
        /\ karaokeCurrent' = getCurrentChunk(karaokeChunks, f)
    /\ done' = done \cup {"getCurrentChunk"}
    /\ UNCHANGED <<subtitles, config, chunks, karaokeChunks>>
    /\ UNCHANGED timelineVars
    /\ UNCHANGED <<animations, activeChunk, fadeInProgress, fadeOutProgress, opacity,
                   srtContent>>
    /\ UNCHANGED extensionVars

NextRenderer == RunChunkSRT \/ RenderSubtitle

SpecRenderer == InitRenderer /\ [][NextRenderer]_vars

\* both chunkers and both lookups over a subtitle list, under the default template
InitLookup ==
    /\ \E n \in 1..2 : subtitles \in [1..n -> RendererCues]
    /\ config \in RendererConfigs
    /\ chunks = <<>>
    /\ karaokeChunks = <<>>
    /\ done = {}
    /\ TimelineIdle
    /\ RendererIdle
    /\ srtContent = <<>>
    /\ ExtensionIdle

NextLookup ==
    RunChunkSRT \/ RunChunkSrtForKaraoke \/ RenderSubtitle \/ RunGetCurrentChunk

SpecLookup == InitLookup /\ [][NextLookup]_vars

----------------------------------------------------------------------------
(* Properties of the renderer *)

Rendered == "render" \in done
ContainingChunks == {i \in DOMAIN chunks :
                        chunks[i].startFrame <= frame /\ frame <= chunks[i].endFrame}
ContainingKaraoke == {i \in DOMAIN karaokeChunks :
                        karaokeChunks[i].start <= testFrame
                        /\ testFrame <= karaokeChunks[i].end}
Least(S) == CHOOSE i \in S : \A j \in S : i <= j

\* C15: the chunk SubtitleRenderer / getActiveChunk finds for a frame, and the
\* one getCurrentChunk returns, is the first chunk in list order whose range
\* [start, end] contains the frame, both ends included; none when no chunk
\* contains it; the earliest in list order when several do.
C15_FirstContainingChunk ==
    /\ Rendered =>
        IF ContainingChunks = {} THEN activeChunk = null
        ELSE activeChunk = Some(chunks[Least(ContainingChunks)])
    /\ "getCurrentChunk" \in done =>
        IF ContainingKaraoke = {} THEN karaokeCurrent = null
        ELSE karaokeCurrent = Some(karaokeChunks[Least(ContainingKaraoke)])

\* both lookups were made at a frame that several chunks contain and that is
\* the last frame of the chunk returned
C15_Witness ==
    /\ Rendered
    /\ Cardinality(ContainingChunks) >= 2
    /\ activeChunk # null
    /\ activeChunk[1].endFrame = frame
    /\ "getCurrentChunk" \in done
    /\ Cardinality(ContainingKaraoke) >= 2
    /\ karaokeCurrent # null
    /\ karaokeCurrent[1].end = testFrame

AnimationFrames == animationDurationFrames(animations, VideoFps)

\* C16: at every frame of an active chunk the opacity is the smaller of the
\* fade-in and fade-out values and lies in [0, 1]; for a chunk shorter than
\* twice the animation length it stays below 1.
C16_OpacityIsMinimum ==
    Rendered /\ activeChunk # null =>
        /\ opacity # undefined
        /\ opacity[1] <= fadeInProgress[1]
        /\ opacity[1] <= fadeOutProgress[1]
        /\ opacity[1] \in {fadeInProgress[1], fadeOutProgress[1]}
        /\ 0 <= opacity[1] /\ opacity[1] <= Unit
        /\ activeChunk[1].endFrame - activeChunk[1].startFrame < 2 * AnimationFrames =>
             opacity[1] < Unit

\* a chunk shorter than twice the animation length shown part-way through
\* both of its fades
C16_Witness ==
    /\ Rendered
    /\ activeChunk # null
    /\ activeChunk[1].endFrame - activeChunk[1].startFrame < 2 * AnimationFrames
    /\ 0 < opacity[1]
    /\ opacity[1] < fadeInProgress[1]
    /\ fadeInProgress[1] < Unit

C17_Edges ==
    Rendered /\ activeChunk # null =>
        /\ fadeInProgress[1] \in 0..Unit
        /\ fadeOutProgress[1] \in 0..Unit
        /\ frame = activeChunk[1].startFrame => fadeInProgress[1] = 0
        /\ frame >= activeChunk[1].startFrame + AnimationFrames => fadeInProgress[1] = Unit
        /\ frame <= activeChunk[1].endFrame - AnimationFrames => fadeOutProgress[1] = Unit
        /\ frame = activeChunk[1].endFrame => fadeOutProgress[1] = 0

C17_Monotone ==
    /\ Rendered
    /\ activeChunk # null
    /\ activeChunk' = activeChunk
    /\ frame' >= frame
    => /\ fadeInProgress'[1] >= fadeInProgress[1]
       /\ fadeOutProgress'[1] <= fadeOutProgress[1]

\* C17: while a chunk is shown, the fade-in value is 0 at startFrame, 1 from
\* startFrame + animationDurationFrames on, and never decreases from one frame
\* to a later one; the fade-out value is 1 up to endFrame -
\* animationDurationFrames, 0 at endFrame, and never increases; both stay
\* within [0, 1].
C17_FadesMonotoneAndClamped == [](C17_Edges) /\ [][C17_Monotone]_vars

\* a frame past the end of the fade-in and inside the fade-out of its chunk
C17_Witness ==
    /\ Rendered
    /\ activeChunk # null
    /\ frame > activeChunk[1].startFrame + AnimationFrames
    /\ fadeInProgress[1] = Unit
    /\ 0 < fadeOutProgress[1]
    /\ fadeOutProgress[1] < Unit

----------------------------------------------------------------------------
(* srtParser *)

NaN == <<>>

Digits == <<"0", "1", "2", "3", "4", "5", "6", "7", "8", "9">>
IsDigit(c) == indexOf(Digits, c) >= 0

\* the value of the longest prefix of s made of digits, after the digits read so far
RECURSIVE DigitPrefix(_, _)
DigitPrefix(s, acc) ==
    IF Len(s) > 0 /\ IsDigit(Head(s))
    THEN DigitPrefix(Tail(s), 10 * acc + indexOf(Digits, Head(s)))
    ELSE acc

\* parseInt(string): leading white space is dropped, a sign is accepted, the
\* digits that follow are read and the rest of the string is ignored
parseInt(str) ==
    LET s == TrimStart(str)
        signed == Len(s) > 0 /\ Head(s) \in {"-", "+"}
        body == IF signed THEN Tail(s) ELSE s
    IN  IF Len(body) = 0 \/ ~IsDigit(Head(body)) THEN NaN
        ELSE IF signed /\ Head(s) = "-" THEN Some(0 - DigitPrefix(body, 0))
        ELSE Some(DigitPrefix(body, 0))

\* /(\d{2}):(\d{2}):(\d{2}),(\d{3}) --> (\d{2}):(\d{2}):(\d{2}),(\d{3})/, "d" for \d
TimePattern ==
    << "d", "d", ":", "d", "d", ":", "d", "d", ",", "d", "d", "d",
       " ", "-", "-", ">", " ",
       "d", "d", ":", "d", "d", ":", "d", "d", ",", "d", "d", "d" >>

MatchesAt(line, k) ==
    /\ k + Len(TimePattern) - 1 <= Len(line)
    /\ \A j \in 1..Len(TimePattern) :
        IF TimePattern[j] = "d" THEN IsDigit(line[k + j - 1])
        ELSE line[k + j - 1] = TimePattern[j]

\* String.prototype.match: the leftmost place where the pattern matches
timeMatch(line) ==
    IF \E k \in 1..Len(line) : MatchesAt(line, k)
    THEN LET k == CHOOSE k \in 1..Len(line) :
                    MatchesAt(line, k) /\ \A j \in 1..(k - 1) : ~MatchesAt(line, j)
         IN  Some(SubSeq(line, k, k + Len(TimePattern) - 1))
    ELSE null

\* parseTime, in milliseconds
parseTime(hours, minutes, seconds, milliseconds) ==
    (parseInt(hours)[1] * 3600 + parseInt(minutes)[1] * 60 + parseInt(seconds)[1]) * 1000
    + parseInt(milliseconds)[1]

\* String.prototype.split('\n'): the pieces between one line feed and the next
SplitLines(s) ==
    LET feeds == {k \in 1..Len(s) : s[k] = "\n"}
        count == Cardinality(feeds) + 1
        feed(j) == CHOOSE k \in feeds : Cardinality({i \in feeds : i <= k}) = j
    IN  [j \in 1..count |->
            SubSeq(s, IF j = 1 THEN 1 ELSE feed(j - 1) + 1,
                      IF j = count THEN Len(s) ELSE feed(j) - 1)]

\* /^\d+$/
IsDigitsOnly(line) == Len(line) > 0 /\ \A k \in 1..Len(line) : IsDigit(line[k])

\* the inner while loop: the first index from i on that is past the end, blank
\* or made of digits only
RECURSIVE TextEnd(_, _)
TextEnd(lines, i) ==
    IF i <= Len(lines) /\ Len(Trim(lines[i])) # 0 /\ ~IsDigitsOnly(lines[i])
    THEN TextEnd(lines, i + 1)
    ELSE i

\* after a time line that does not match, at index i, the loop also passes the line after it
AfterInvalidTimeSkipsNext(i) == i + 2

\* "i++; continue" after a time line that does not match, at index i
AfterInvalidTime(i) == i + 1

\* the while loop of parseSRT from line i (1-based)
RECURSIVE ParseLoop(_, _, _)
ParseLoop(lines, i, entries) ==
    IF i > Len(lines) THEN entries
    ELSE IF Len(lines[i]) = 0 \/ Len(Trim(lines[i])) = 0 THEN ParseLoop(lines, i + 1, entries)
    ELSE LET id == parseInt(lines[i])
         IN  IF id = NaN THEN ParseLoop(lines, i + 1, entries)
             ELSE IF i + 1 > Len(lines) THEN entries
             ELSE LET m == timeMatch(lines[i + 1])
                  IN  IF m = null THEN ParseLoop(lines, AfterInvalidTime(i + 1), entries)
                      ELSE LET t == m[1]
                               stop == TextEnd(lines, i + 2)
                               textLines == SubSeq(lines, i + 2, stop - 1)
                               entry ==
                                 [ id |-> id[1],
                                   startTime |-> parseTime(SubSeq(t, 1, 2), SubSeq(t, 4, 5),
                                                           SubSeq(t, 7, 8), SubSeq(t, 10, 12)),
                                   endTime |-> parseTime(SubSeq(t, 18, 19), SubSeq(t, 21, 22),
                                                         SubSeq(t, 24, 25), SubSeq(t, 27, 29)),
                                   text |-> Trim(JoinWords(textLines)) ]
                           IN  ParseLoop(lines, stop, Append(entries, entry))

parseSRT(content) == ParseLoop(SplitLines(Trim(content)), 1, <<>>)

----------------------------------------------------------------------------
(* parseSRT over the text of an SRT file *)

MaxRecords == 2

StartToEnd == << "0", "0", ":", "0", "0", ":", "0", "1", ",", "0", "0", "0", " ",
             "-", "-", ">", " ", "0", "0", ":", "0", "0", ":", "0", "2", ",",
             "5", "0", "0" >>
LaterStartToEnd == << "0", "0", ":", "0", "0", ":", "0", "3", ",", "0", "0", "0", " ",
             "-", "-", ">", " ", "0", "0", ":", "0", "0", ":", "0", "4", ",",
             "0", "0", "0" >>
EndBeforeStart == << "0", "0", ":", "0", "0", ":", "0", "4", ",", "0", "0", "0", " ",
             "-", "-", ">", " ", "0", "0", ":", "0", "0", ":", "0", "3", ",",
             "0", "0", "0" >>
NotATimeLine == << "0", "0", ":", "0", "0", ":", "0", "1", " ", "-", ">", " ", "0",
             "0", ":", "0", "0", ":", "0", "2" >>
Hola == << "h", "o", "l", "a" >>
TwoWords == << "a", " ", "b" >>
Seven == << "7" >>
TwoThenWord == << "2", " ", "a" >>

\* the records a file is made of, each a sequence of lines
SrtRecords ==
    { \* id, time, one text line
      << <<"1">>, StartToEnd, Hola >>,
      \* two text lines
      << <<"2">>, LaterStartToEnd, Hola, TwoWords >>,
      \* a text line that is a number
      << <<"3">>, StartToEnd, Hola, Seven, TwoWords >>,
      \* an id line that is not a number
      << <<"x">>, StartToEnd, Hola >>,
      \* a time line that is not one
      << <<"4">>, NotATimeLine, Hola >>,
      \* the same, with a last text line that begins with a number
      << <<"5">>, NotATimeLine, Hola, TwoThenWord >>,
      \* the id 0
      << <<"0">>, StartToEnd, Hola >>,
      \* the end before the start
      << <<"6">>, EndBeforeStart, Hola >>,
      \* no text line
      << <<"7">>, LaterStartToEnd >> }

\* Array.prototype.join('\n')
RECURSIVE JoinLines(_)
JoinLines(lines) ==
    IF Len(lines) = 0 THEN <<>>
    ELSE IF Len(lines) = 1 THEN lines[1]
    ELSE lines[1] \o <<"\n">> \o JoinLines(Tail(lines))

\* the text of a file of the given records, a blank line after each
RECURSIVE FileOf(_)
FileOf(records) ==
    IF Len(records) = 0 THEN <<>>
    ELSE JoinLines(Head(records)) \o <<"\n", "\n">> \o FileOf(Tail(records))

mockSRTContent ==
    << "1", "\n", "0", "0", ":", "0", "0", ":", "0", "1", ",", "0", "0", "0",
       " ", "-", "-", ">", " ", "0", "0", ":", "0", "0", ":", "0", "3", ",",
       "0", "0", "0", "\n", "H", "o", "l", "a", " ", "m", "u", "n", "d", "o",
       ",", " ", "e", "s", "t", "o", " ", "e", "s", " ", "u", "n", "a", " ",
       "p", "r", "u", "e", "b", "a", "\n", "\n", "2", "\n", "0", "0", ":", "0",
       "0", ":", "0", "4", ",", "0", "0", "0", " ", "-", "-", ">", " ", "0",
       "0", ":", "0", "0", ":", "0", "7", ",", "0", "0", "0", "\n", "D", "e",
       " ", "n", "u", "e", "s", "t", "r", "o", " ", "s", "i", "s", "t", "e",
       "m", "a", " ", "d", "e", " ", "s", "u", "b", "t", "i", "t", "u", "l",
       "o", "s", " ", "k", "a", "r", "a", "o", "k", "e", "\n", "\n", "3", "\n",
       "0", "0", ":", "0", "0", ":", "0", "8", ",", "0", "0", "0", " ", "-",
       "-", ">", " ", "0", "0", ":", "0", "0", ":", "1", "0", ",", "0", "0",
       "0", "\n", "C", "o", "n", " ", "d", "i", "f", "e", "r", "e", "n", "t",
       "e", "s", " ", "c", "o", "n", "f", "i", "g", "u", "r", "a", "c", "i",
       "o", "n", "e", "s" >>

InitSRT ==
    /\ \/ \E n \in 0..MaxRecords :
            \E records \in [1..n -> SrtRecords] :
                srtContent \in {FileOf(records), Trim(FileOf(records))}
       \/ srtContent = mockSRTContent
    /\ subtitles = <<>>
    /\ config = shortChunkConfig
    /\ chunks = <<>>
    /\ karaokeChunks = <<>>
    /\ done = {}
    /\ TimelineIdle
    /\ RendererIdle
    /\ ExtensionIdle

\* parseSRT(srtContent)
RunParseSRT ==
    /\ "parseSRT" \notin done
    /\ subtitles' = parseSRT(srtContent)
    /\ done' = done \cup {"parseSRT"}
    /\ UNCHANGED <<config, chunks, karaokeChunks, srtContent>>
    /\ UNCHANGED timelineVars
    /\ UNCHANGED rendererVars
    /\ UNCHANGED extensionVars

NextSRT == RunParseSRT

SpecSRT == InitSRT /\ [][NextSRT]_vars

----------------------------------------------------------------------------
(* Properties of parseSRT *)

Parsed == "parseSRT" \in done

\* the records of the file: the maximal runs of non-blank lines
RECURSIVE GroupRecords(_, _)
GroupRecords(lines, current) ==
    IF Len(lines) = 0 THEN (IF Len(current) > 0 THEN <<current>> ELSE <<>>)
    ELSE IF Len(Trim(Head(lines))) = 0
         THEN (IF Len(current) > 0 THEN <<current>> ELSE <<>>)
              \o GroupRecords(Tail(lines), <<>>)
         ELSE GroupRecords(Tail(lines), Append(current, Head(lines)))

FileRecords == GroupRecords(SplitLines(srtContent), <<>>)

NumericIdLine(line) == Len(line) > 0 /\ \A k \in 1..Len(line) : line[k] \in
                          {"0", "1", "2", "3", "4", "5", "6", "7", "8", "9"}
ValidTimeLine(line) == Len(line) = Len(TimePattern) /\ MatchesAt(line, 1)

\* a record with a numeric id line and a valid time line
Parseable(record) ==
    Len(record) >= 2 /\ NumericIdLine(record[1]) /\ ValidTimeLine(record[2])

ParseableRecords == SelectSeq(FileRecords, Parseable)

\* the value of a field of digits
Number(field) == DigitPrefix(field, 0)

\* the time written at column k of a time line, in milliseconds
TimeAt(line, k) ==
    (Number(SubSeq(line, k, k + 1)) * 3600 + Number(SubSeq(line, k + 3, k + 4)) * 60
     + Number(SubSeq(line, k + 6, k + 7))) * 1000 + Number(SubSeq(line, k + 9, k + 11))

TextLinesOf(record) == SubSeq(record, 3, Len(record))
HasNumberLine(record) ==
    \E k \in DOMAIN TextLinesOf(record) : NumericIdLine(TextLinesOf(record)[k])

C19_AllTextLinesJoined ==
    Parsed =>
        /\ Len(subtitles) = Len(ParseableRecords)
        /\ \A k \in DOMAIN subtitles :
            subtitles[k].text = JoinWords(TextLinesOf(ParseableRecords[k]))

\* C20: every entry parseSRT returns has id >= 1, startTime >= 0,
\* endTime > startTime and a text that is not empty.
C20_EntriesValid ==
    Parsed =>
        \A k \in DOMAIN subtitles :
            /\ subtitles[k].id >= 1
            /\ subtitles[k].startTime >= 0
            /\ subtitles[k].endTime > subtitles[k].startTime
            /\ Len(subtitles[k].text) > 0

----------------------------------------------------------------------------
(* Playback duration derived from the subtitles *)

\* Math.ceil(num / den) for num >= 0 and den > 0
MathCeil(num, den) == (num + den - 1) \div den

\* the duration without the fallback for an empty list: the buffer alone
calculateDurationNoFallback(subs, fps) ==
    IF Len(subs) = 0 THEN MathCeil(1000 * fps, 1000)
    ELSE MathCeil((subs[Len(subs)].endTime + 1000) * fps, 1000)

\* calculateDurationFromSubtitles: the end of the last entry plus 1 s
calculateDurationFromSubtitles(subs, fps) ==
    IF Len(subs) = 0 THEN 690
    ELSE MathCeil((subs[Len(subs)].endTime + 1000) * fps, 1000)

\* calculateVideoDuration: ok is whether fetch() resolves; the end of the last
\* entry plus 2 s, 23 s when the fetch is rejected
calculateVideoDuration(content, ok, fps) ==
    IF ~ok THEN MathCeil(23 * fps, 1)
    ELSE LET subs == parseSRT(content)
         IN  IF Len(subs) = 0 THEN 690
             ELSE MathCeil((subs[Len(subs)].endTime + 2000) * fps, 1000)

DurationFpsSet == {24, 30}

LongStartToEnd == << "0", "0", ":", "0", "0", ":", "0", "1", ",", "0", "0", "0", " ",
             "-", "-", ">", " ", "0", "0", ":", "0", "0", ":", "0", "9", ",",
             "0", "0", "0" >>

\* well-formed records: [1, 2.5], [3, 4] and the long [1, 9] that overlaps both
DurationRecords ==
    { << <<"1">>, StartToEnd, Hola >>,
      << <<"2">>, LaterStartToEnd, Hola >>,
      << <<"3">>, LongStartToEnd, TwoWords >> }

InitDuration ==
    /\ \E n \in 0..MaxRecords :
         \E records \in [1..n -> DurationRecords] :
            srtContent = FileOf(records)
    /\ subtitles = <<>>
    /\ config = shortChunkConfig
    /\ chunks = <<>>
    /\ karaokeChunks = <<>>
    /\ done = {}
    /\ TimelineIdle
    /\ RendererIdle
    /\ fetchOk \in BOOLEAN
    /\ durationFps \in DurationFpsSet
    /\ subtitleDuration = undefined
    /\ videoDuration = undefined
    /\ sequencedDuration = undefined
    /\ TemplateIdle
    /\ LoaderIdle
    /\ SplitIdle

\* calculateDurationFromSubtitles(subtitles, fps) on the parsed list
RunCalculateDurationFromSubtitles ==
    /\ "parseSRT" \in done
    /\ subtitleDuration = undefined
    /\ subtitleDuration' = Some(calculateDurationFromSubtitles(subtitles, durationFps))
    /\ UNCHANGED <<fetchOk, durationFps, videoDuration, sequencedDuration>>
    /\ UNCHANGED chunkVars
    /\ UNCHANGED timelineVars
    /\ UNCHANGED rendererVars
    /\ UNCHANGED srtContent
    /\ UNCHANGED templateVars
    /\ UNCHANGED loaderVars
    /\ UNCHANGED splitVars

\* calculateVideoDuration(subtitlesFile, fps): fetch, parse, measure
RunCalculateVideoDuration ==
    /\ videoDuration = undefined
    /\ videoDuration' = Some(calculateVideoDuration(srtContent, fetchOk, durationFps))
    /\ UNCHANGED <<fetchOk, durationFps, subtitleDuration, sequencedDuration>>
    /\ UNCHANGED chunkVars
    /\ UNCHANGED timelineVars
    /\ UNCHANGED rendererVars
    /\ UNCHANGED srtContent
    /\ UNCHANGED templateVars
    /\ UNCHANGED loaderVars
    /\ UNCHANGED splitVars

NextDuration ==
    RunParseSRT \/ RunCalculateDurationFromSubtitles \/ RunCalculateVideoDuration

SpecDuration == InitDuration /\ [][NextDuration]_vars

\* the frames a cue that ends at endTime reaches: Math.ceil(endTime * fps)
EndFrameCeil(endTime, fps) == MathCeil(endTime * fps, 1000)

\* C21: the duration derived from a subtitle list is at least
\* ceil(cue.endTime * fps) for every cue of the list, both for
\* calculateDurationFromSubtitles on the parsed list and for
\* calculateVideoDuration on the file it fetched, also when the cues overlap or
\* are not in the order of their end times.
C21_DurationCoversEveryCue ==
    /\ subtitleDuration # undefined =>
         \A k \in DOMAIN subtitles :
            subtitleDuration[1] >= EndFrameCeil(subtitles[k].endTime, durationFps)
    /\ (videoDuration # undefined /\ fetchOk) =>
         \A k \in DOMAIN parseSRT(srtContent) :
            videoDuration[1] >= EndFrameCeil(parseSRT(srtContent)[k].endTime, durationFps)

----------------------------------------------------------------------------
(* Playback duration derived from the timeline descriptor *)

\* segment.timing?.end_time > maxEndTime over the children of a phrase
RECURSIVE MaxEndOfSegments(_, _)
MaxEndOfSegments(segments, maxEndTime) ==
    IF Len(segments) = 0 THEN maxEndTime
    ELSE MaxEndOfSegments(Tail(segments),
            IF HasField(Head(segments), "timing")
               /\ Head(segments).timing.end_time > maxEndTime
            THEN Head(segments).timing.end_time
            ELSE maxEndTime)

\* the body of phrases.forEach: the children when phrase.segmentation?.segments
\* is there (an empty array is truthy), the phrase's own end otherwise
MaxEndOfPhrase(phrase, maxEndTime) ==
    IF HasField(phrase, "segmentation") /\ phrase.segmentation.segments # undefined
    THEN MaxEndOfSegments(phrase.segmentation.segments[1], maxEndTime)
    ELSE IF HasField(phrase, "timing") /\ phrase.timing.end_time > maxEndTime
         THEN phrase.timing.end_time
         ELSE maxEndTime

RECURSIVE MaxEndOfPhrases(_, _)
MaxEndOfPhrases(phrases, maxEndTime) ==
    IF Len(phrases) = 0 THEN maxEndTime
    ELSE MaxEndOfPhrases(Tail(phrases), MaxEndOfPhrase(Head(phrases), maxEndTime))

\* calculateSequencedVideoDuration: ok is whether fetch() resolves; the latest
\* end plus 2 s, 40 s when the fetch is rejected
calculateSequencedVideoDuration(phrases, ok, fps) ==
    IF ~ok THEN MathCeil(40 * fps, 1)
    ELSE MathCeil((MaxEndOfPhrases(phrases, 0) + 2000) * fps, 1000)

\* children [1, 2] and [2, 3]
EarlyChildren ==
    << [segment_number |-> 1, timing |-> Timing(1000, 2000),
        editing_suggestion |-> "Narrator only on screen"],
       [segment_number |-> 2, timing |-> Timing(2000, 3000),
        editing_suggestion |-> "Video only on screen"] >>

SequencedSegmentations ==
    { [needs_segmentation |-> n, segments |-> c] :
        n \in BOOLEAN, c \in {undefined, Some(<<>>), Some(EarlyChildren)} }

SequencedPhraseShapes ==
    { [timing |-> t, editing_suggestion |-> "Narrator and video split screen",
       segmentation |-> g] :
        t \in {Timing(0, 1000), Timing(1000, 8000)}, g \in SequencedSegmentations }

InitSequencedDuration ==
    /\ ChunkersIdle
    /\ \E n \in 0..MaxPhrases :
         \E shapes \in [1..n -> SequencedPhraseShapes] :
            data = [k \in 1..n |-> Phrase(shapes[k], k)]
    /\ timeline = <<>>
    /\ loaded = FALSE
    /\ frame = 0
    /\ activeSegment = null
    /\ currentLayout = "center"
    /\ RendererIdle
    /\ srtContent = <<>>
    /\ fetchOk \in BOOLEAN
    /\ durationFps \in DurationFpsSet
    /\ subtitleDuration = undefined
    /\ videoDuration = undefined
    /\ sequencedDuration = undefined
    /\ TemplateIdle
    /\ LoaderIdle
    /\ SplitIdle

\* calculateSequencedVideoDuration(segmentedPromptsFile, fps)
RunCalculateSequencedVideoDuration ==
    /\ sequencedDuration = undefined
    /\ sequencedDuration' =
         Some(calculateSequencedVideoDuration(data, fetchOk, durationFps))
    /\ UNCHANGED <<fetchOk, durationFps, subtitleDuration, videoDuration>>
    /\ UNCHANGED chunkVars
    /\ UNCHANGED timelineVars
    /\ UNCHANGED rendererVars
    /\ UNCHANGED srtContent
    /\ UNCHANGED templateVars
    /\ UNCHANGED loaderVars
    /\ UNCHANGED splitVars

NextSequencedDuration == LoadData \/ RunCalculateSequencedVideoDuration

SpecSequencedDuration == InitSequencedDuration /\ [][NextSequencedDuration]_vars

\* C22: the duration calculateSequencedVideoDuration returns for a descriptor
\* is at least ceil(endTime * fps) for every segment that parseSegmentedPrompts
\* emits for the same descriptor, whatever the needs_segmentation flags and
\* the child lists are.
C22_SequencedDurationCoversTimeline ==
    (loaded /\ sequencedDuration # undefined /\ fetchOk) =>
        \A k \in DOMAIN timeline :
            sequencedDuration[1] >= EndFrameCeil(timeline[k].endTime, durationFps)

----------------------------------------------------------------------------
(* Empty inputs: a subtitle file without cues, a descriptor without phrases *)

MaxBlankLen == 2

\* texts of blanks and line feeds, the empty text among them
BlankTexts ==
    UNION { [1..n -> {" ", "\n"}] : n \in 0..MaxBlankLen }

InitEmptyInput ==
    /\ srtContent \in BlankTexts \cup {FileOf(<< << <<"1">>, StartToEnd, Hola >> >>)}
    /\ subtitles = <<>>
    /\ config = shortChunkConfig
    /\ chunks = <<>>
    /\ karaokeChunks = <<>>
    /\ done = {}
    /\ data \in {<<>>, OverlapForward}
    /\ timeline = <<>>
    /\ loaded = FALSE
    /\ frame = 0
    /\ activeSegment = null
    /\ currentLayout = "center"
    /\ RendererIdle
    /\ fetchOk = TRUE
    /\ durationFps \in DurationFpsSet
    /\ subtitleDuration = undefined
    /\ videoDuration = undefined
    /\ sequencedDuration = undefined
    /\ TemplateIdle
    /\ LoaderIdle
    /\ SplitIdle

\* chunkSRT(parsedSubtitles, config.chunking) on the list parseSRT returned
ChunkParsed ==
    /\ "parseSRT" \in done
    /\ RunChunkSRT

NextEmptyInput ==
    \/ RunParseSRT
    \/ ChunkParsed
    \/ RenderSubtitle
    \/ LoadData
    \/ RenderFrame
    \/ RunCalculateDurationFromSubtitles
    \/ RunCalculateVideoDuration

SpecEmptyInput == InitEmptyInput /\ [][NextEmptyInput]_vars

\* the subtitle file holds nothing but blanks
NoCues == Len(Trim(srtContent)) = 0

\* C23: with no cues and no segments nothing fails: parseSRT of a text without
\* cues and chunkSRT of the empty list give empty lists, every frame then has
\* no active chunk and the layout 'center', and both subtitle-based durations
\* are the fallback of 690 frames.
C23_EmptyInputDefaults ==
    /\ (NoCues /\ "parseSRT" \in done) => subtitles = <<>>
    /\ (NoCues /\ "chunkSRT" \in done) => chunks = <<>>
    /\ (NoCues /\ "render" \in done) =>
         /\ activeChunk = null
         /\ opacity = undefined
    /\ (loaded /\ data = <<>>) =>
         /\ timeline = <<>>
         /\ activeSegment = null
         /\ currentLayout = "center"
    /\ (NoCues /\ subtitleDuration # undefined) => subtitleDuration = Some(690)
    /\ (NoCues /\ videoDuration # undefined) => videoDuration = Some(690)

C23_Witness ==
    /\ NoCues
    /\ Len(srtContent) > 0
    /\ "render" \in done
    /\ loaded
    /\ data = <<>>
    /\ frame > 0
    /\ subtitleDuration = Some(690)
    /\ videoDuration = Some(690)
    /\ durationFps = 24

----------------------------------------------------------------------------
(* Chunking configuration: the options of chunkSrtForKaraoke, the template *)

ChunkingFields == {"maxChars", "minDuration", "fps", "gapFrames"}

\* the defaults of the destructuring of options in chunkSrtForKaraoke
ResolveChunkingOptions(options) ==
    [ maxChars |-> IF HasField(options, "maxChars") THEN options.maxChars ELSE 7,
      minDuration |-> IF HasField(options, "minDuration") THEN options.minDuration
                      ELSE 1200,
      fps |-> IF HasField(options, "fps") THEN options.fps ELSE 30,
      gapFrames |-> IF HasField(options, "gapFrames") THEN options.gapFrames ELSE 0 ]

\* the chunking block of getDefaultTemplateConfig
defaultChunking ==
    [ maxChars |-> 7, minDuration |-> 1200, fps |-> 30, gapFrames |-> 0,
      wordBreakPriority |-> StandardBreakPriority ]

\* getDefaultTemplateConfig, the blocks that the chunker and the renderer read
getDefaultTemplateConfig ==
    [ name |-> "Default Style", animations |-> defaultAnimations,
      chunking |-> defaultChunking ]

\* whether validateTemplateConfig throws: a required block is missing, or
\* chunking.maxChars or chunking.minDuration is missing or 0
ValidateThrows(cfg) ==
    \/ ~HasField(cfg, "chunking")
    \/ ~HasField(cfg, "animations")
    \/ ~HasField(cfg.chunking, "maxChars")
    \/ cfg.chunking.maxChars = 0
    \/ ~HasField(cfg.chunking, "minDuration")
    \/ cfg.chunking.minDuration = 0

\* loadTemplateConfig: file is the template JSON, undefined when the fetch is
\* rejected or not ok; whatever is thrown gives the default template
loadTemplateConfig(file) ==
    IF file = undefined THEN getDefaultTemplateConfig
    ELSE IF ValidateThrows(file[1]) THEN getDefaultTemplateConfig
    ELSE file[1]

\* the sub-records of a record: each field there or missing
SubRecords(full) == { [f \in S |-> full[f]] : S \in SUBSET DOMAIN full }

\* a chunking block with no field at its default
TemplateChunking ==
    [ maxChars |-> 5, minDuration |-> 1000, fps |-> 24, gapFrames |-> 2,
      wordBreakPriority |-> <<",", " ">> ]

TemplateFiles ==
    { Some([name |-> "karaoke", animations |-> defaultAnimations, chunking |-> c]) :
        c \in SubRecords(TemplateChunking) }
    \cup { Some([name |-> "karaoke", animations |-> defaultAnimations]), undefined }

OptionSets ==
    SubRecords([maxChars |-> 5, minDuration |-> 1000, fps |-> 24, gapFrames |-> 2])

\* cues of one or two characters: no longer than maxChars under every template
ShortCues ==
    { [id |-> 1, startTime |-> 1000, endTime |-> 3000, text |-> t] :
        t \in {<<"a">>, <<"a", "b">>} }

InitTemplate ==
    /\ subtitles \in {<<c>> : c \in ShortCues}
    /\ config = shortChunkConfig
    /\ chunks = <<>>
    /\ karaokeChunks = <<>>
    /\ done = {}
    /\ TimelineIdle
    /\ RendererIdle
    /\ srtContent = <<>>
    /\ DurationIdle
    /\ templateFile \in TemplateFiles
    /\ templateConfig = null
    /\ karaokeOptions \in OptionSets
    /\ LoaderIdle
    /\ SplitIdle

\* chunkSrtForKaraoke(srtContent, options) with some options left out
RunKaraokeWithOptions ==
    /\ "karaoke" \notin done
    /\ karaokeChunks' = chunkSrtForKaraoke(subtitles, ResolveChunkingOptions(karaokeOptions))
    /\ done' = done \cup {"karaoke"}
    /\ UNCHANGED <<subtitles, config, chunks>>
    /\ UNCHANGED timelineVars
    /\ UNCHANGED rendererVars
    /\ UNCHANGED srtContent
    /\ UNCHANGED extensionVars

\* Math.round(subtitle.startTime * fps) with fps undefined
NaNFrameChunk(subtitle) ==
    [ startFrame |-> NaN, endFrame |-> NaN, text |-> Trim(subtitle.text),
      originalSubtitle |-> subtitle, chunkIndex |-> 0, totalChunks |-> 1 ]

\* chunkSRT(subtitles, chunking) for cues no longer than maxChars, which take
\* the single-chunk return: it reads maxChars and fps only, and an undefined fps
\* makes both frames NaN
chunkShortCues(subs, chunking) ==
    IF ~HasField(chunking, "fps")
    THEN [k \in DOMAIN subs |-> NaNFrameChunk(subs[k])]
    ELSE chunkSRT(subs, chunking @@ [gapFrames |-> 0, wordBreakPriority |-> <<>>])

\* steps 1 and 3 of loadData of KaraokeVideo: the template is loaded and stored,
\* chunkSRT runs with its chunking block
LoadTemplateAndChunk ==
    /\ "chunkSRT" \notin done
    /\ templateConfig' = Some(loadTemplateConfig(templateFile))
    /\ config' = templateConfig'[1].chunking
    /\ chunks' = chunkShortCues(subtitles, config')
    /\ done' = done \cup {"chunkSRT"}
    /\ UNCHANGED <<subtitles, karaokeChunks>>
    /\ UNCHANGED timelineVars
    /\ UNCHANGED rendererVars
    /\ UNCHANGED srtContent
    /\ UNCHANGED durationVars
    /\ UNCHANGED <<templateFile, karaokeOptions>>
    /\ UNCHANGED loaderVars
    /\ UNCHANGED splitVars

NextTemplate == RunKaraokeWithOptions \/ LoadTemplateAndChunk

SpecTemplate == InitTemplate /\ [][NextTemplate]_vars

\* the documented defaults
DocumentedDefaults == [maxChars |-> 7, minDuration |-> 1200, fps |-> 30, gapFrames |-> 0]

\* the value of a field: the one given, the documented default when left out
FieldOrDefault(given, f) == IF HasField(given, f) THEN given[f] ELSE DocumentedDefaults[f]

\* the chunking block of the template file, empty when there is none
GivenChunking ==
    IF templateFile # undefined /\ HasField(templateFile[1], "chunking")
    THEN templateFile[1].chunking
    ELSE [f \in {} |-> 0]

\* C25: each chunking field left out falls back by itself to its documented
\* default (maxChars 7, minDuration 1.2 s, fps 30, gapFrames 0), for the options
\* of chunkSrtForKaraoke and for the chunking block of a loaded template, so
\* chunkSRT runs with every one of the four fields defined.
C25_FieldsDefaultIndividually ==
    /\ "karaoke" \in done =>
         karaokeChunks =
           chunkSrtForKaraoke(subtitles,
              [f \in ChunkingFields |-> FieldOrDefault(karaokeOptions, f)])
    /\ "chunkSRT" \in done =>
         \A f \in ChunkingFields :
            /\ HasField(config, f)
            /\ config[f] = FieldOrDefault(GivenChunking, f)

----------------------------------------------------------------------------
(* The loading effects of SequencedVideo, DynamicVideo and KaraokeVideo *)

MaxLoads == 2

Components == {"SequencedVideo", "DynamicVideo", "KaraokeVideo"}

\* the files that the props name after the g-th change: a descriptor of one
\* phrase that ends at g seconds, a subtitle file of one cue with the id g
TimelineFileOf(g) ==
    << Phrase([ timing |-> Timing(0, 1000 * g),
                editing_suggestion |-> "Video only on screen",
                segmentation |-> [needs_segmentation |-> FALSE, segments |-> undefined] ],
              1) >>

SubtitleFileOf(g) == FileOf(<< << <<Digits[g + 1]>>, StartToEnd, Hola >> >>)

\* the first await of loadData
FirstStep(c) ==
    CASE c = "SequencedVideo" -> "timeline"
      [] c = "KaraokeVideo" -> "template"
      [] OTHER -> "subtitles"

InitLoader ==
    /\ ChunkersIdle
    /\ TimelineIdle
    /\ RendererIdle
    /\ srtContent = <<>>
    /\ DurationIdle
    /\ TemplateIdle
    /\ component \in Components
    /\ requested = 0
    /\ loads = <<>>
    /\ loading = TRUE
    /\ error = null
    /\ SplitIdle

\* the effect runs, at mount and after each change of the file props: loadData
\* up to its first await
RunEffect ==
    /\ requested < MaxLoads
    /\ requested' = requested + 1
    /\ loads' = Append(loads, [pc |-> FirstStep(component), failed |-> FALSE,
                               config |-> null])
    /\ loading' = TRUE
    /\ error' = null
    /\ UNCHANGED component
    /\ UNCHANGED chunkVars
    /\ UNCHANGED timelineVars
    /\ UNCHANGED rendererVars
    /\ UNCHANGED srtContent
    /\ UNCHANGED durationVars
    /\ UNCHANGED templateVars
    /\ UNCHANGED splitVars

\* SequencedVideo: loadSegmentedPrompts of the i-th loadData is answered;
\* a rejected fetch gives [] inside loadSegmentedPrompts
TimelineAnswered ==
    \E i \in DOMAIN loads : \E ok \in BOOLEAN :
        /\ loads[i].pc = "timeline"
        /\ timeline' = IF ok THEN loadSegmentedPrompts(TimelineFileOf(i)) ELSE <<>>
        /\ loads' = [loads EXCEPT ![i] = [@ EXCEPT !.pc = "subtitles", !.failed = ~ok]]
        /\ activeSegment' = getActiveSegment(timeline', frame, VideoFps)
        /\ currentLayout' = LayoutOf(activeSegment')
        /\ UNCHANGED <<data, loaded, frame>>
        /\ UNCHANGED <<component, requested, loading, error>>
        /\ UNCHANGED chunkVars
        /\ UNCHANGED rendererVars
        /\ UNCHANGED srtContent
        /\ UNCHANGED durationVars
        /\ UNCHANGED templateVars
        /\ UNCHANGED splitVars

\* KaraokeVideo: loadTemplateConfig of the i-th loadData is answered; it gives
\* the default template when its fetch fails
TemplateAnswered ==
    \E i \in DOMAIN loads : \E file \in {undefined, Some(getDefaultTemplateConfig)} :
        /\ loads[i].pc = "template"
        /\ templateConfig' = Some(loadTemplateConfig(file))
        /\ loads' = [loads EXCEPT ![i] = [@ EXCEPT !.pc = "subtitles",
                                                   !.config = templateConfig']]
        /\ UNCHANGED <<templateFile, karaokeOptions>>
        /\ UNCHANGED <<component, requested, loading, error>>
        /\ UNCHANGED chunkVars
        /\ UNCHANGED timelineVars
        /\ UNCHANGED rendererVars
        /\ UNCHANGED srtContent
        /\ UNCHANGED durationVars
        /\ UNCHANGED splitVars

\* the fetch of the subtitle file of the i-th loadData is answered, and
\* loadData runs to its end: the try, the catch, the finally
SubtitlesAnswered ==
    \E i \in DOMAIN loads : \E ok \in BOOLEAN :
        /\ loads[i].pc = "subtitles"
        /\ loads' = [loads EXCEPT ![i] = [@ EXCEPT !.pc = "done",
                                                   !.failed = @ \/ ~ok]]
        /\ CASE component = "SequencedVideo" ->
                  /\ subtitles' = IF ok THEN parseSRT(SubtitleFileOf(i)) ELSE subtitles
                  /\ error' = IF ok THEN error ELSE Some("Failed to load data")
                  /\ UNCHANGED <<config, chunks>>
             [] component = "KaraokeVideo" ->
                  /\ subtitles' = IF ok THEN parseSRT(SubtitleFileOf(i)) ELSE subtitles
                  /\ config' = IF ok THEN loads[i].config[1].chunking ELSE config
                  /\ chunks' = IF ok THEN chunkSRT(subtitles', config') ELSE chunks
                  /\ error' = IF ok THEN error ELSE Some("Error al cargar subtitulos")
             [] OTHER ->
                  /\ subtitles' = IF ok THEN parseSRT(SubtitleFileOf(i)) ELSE <<>>
                  /\ UNCHANGED <<config, chunks, error>>
        /\ loading' = FALSE
        /\ UNCHANGED <<karaokeChunks, done>>
        /\ UNCHANGED <<component, requested>>
        /\ UNCHANGED timelineVars
        /\ UNCHANGED rendererVars
        /\ UNCHANGED srtContent
        /\ UNCHANGED durationVars
        /\ UNCHANGED templateVars
        /\ UNCHANGED splitVars

NextLoader == RunEffect \/ TimelineAnswered \/ TemplateAnswered \/ SubtitlesAnswered

SpecLoader == InitLoader /\ [][NextLoader]_vars

\* what the component returns: the loading screen, the error screen, the video
Screen ==
    IF loading THEN "loading"
    ELSE IF error # null \/ (component = "KaraokeVideo" /\ templateConfig = null)
         THEN "error"
         ELSE "video"

\* every loadData that was started has run to its end
LoadsSettled == requested > 0 /\ \A i \in DOMAIN loads : loads[i].pc = "done"

SomeFetchFailed == \E i \in DOMAIN loads : loads[i].failed

\* C24: when the fetch of the subtitle file or of the timeline descriptor
\* fails, SequencedVideo, DynamicVideo and KaraokeVideo still end with loading
\* false and without the error screen: the video is shown.
C24_FetchFailureNotFatal ==
    (LoadsSettled /\ SomeFetchFailed) =>
        /\ loading = FALSE
        /\ Screen = "video"

\* C29: when the file props of SequencedVideo or KaraokeVideo change while an
\* earlier load is in flight, then once every load that was started has run to
\* its end, in whatever order the fetches were answered, the stored timeline,
\* subtitles and chunks are those of the files requested last.
C29_LatestLoadWins ==
    (LoadsSettled /\ ~SomeFetchFailed) =>
        /\ component = "SequencedVideo" =>
             /\ timeline = loadSegmentedPrompts(TimelineFileOf(requested))
             /\ subtitles = parseSRT(SubtitleFileOf(requested))
        /\ component = "KaraokeVideo" =>
             /\ subtitles = parseSRT(SubtitleFileOf(requested))
             /\ chunks = chunkSRT(subtitles, templateConfig[1].chunking)

----------------------------------------------------------------------------
(* Properties of the word grouping of chunkSrtForKaraoke *)

\* the whitespace-delimited words of a text
WordsOf(text) == SplitWords(Trim(ReplaceNewlines(text)), <<>>)

\* the words of the chunks, in the order of the chunks
RECURSIVE WordsOfChunks(_)
WordsOfChunks(cs) ==
    IF Len(cs) = 0 THEN <<>>
    ELSE WordsOf(Head(cs).text) \o WordsOfChunks(Tail(cs))

\* the items that the loop of chunkSrtForKaraoke does not pass over
Grouped(i) == Len(KaraokeChunksOf(i)) > 0

C28_CueWithWordsHasChunk ==
    RanKaraoke =>
        \A i \in DOMAIN subtitles :
            ( /\ subtitles[i].startTime >= 0
              /\ subtitles[i].endTime > subtitles[i].startTime
              /\ Len(WordsOf(subtitles[i].text)) >= 1 )
            => Len(KaraokeChunksOf(i)) >= 1

----------------------------------------------------------------------------
(* splitTextIntoChunks, one iteration of its loop at a time *)

MaxSplitLen == 5
MaxSplitChars == 3

SplitTexts == UNION {[1..n -> Alphabet] : n \in 0..MaxSplitLen}

SplitPriorities == { <<>>, <<" ">>, <<" ", ",">>, <<",", " ">> }

SplitConfigs ==
    { [maxChars |-> m, minDuration |-> 1000, fps |-> VideoFps, gapFrames |-> 0,
       wordBreakPriority |-> p] : m \in 1..MaxSplitChars, p \in SplitPriorities }

\* the for loop over the window, as splitTextIntoChunks starts it
FindBreakPoint(remainingText, maxChars, breakPriority) ==
    ScanBreakPoint(remainingText, Min(maxChars, Len(remainingText)), breakPriority,
                   0, -1, -1)

\* the cut with no fallback when no break character is found
CutPointNoFallback(found, maxChars) == found

\* if (bestBreakPoint === -1) bestBreakPoint = maxChars - 1
CutPoint(found, maxChars) == IF found = -1 THEN maxChars - 1 ELSE found

InitSplit ==
    /\ subtitles = <<>>
    /\ config \in SplitConfigs
    /\ chunks = <<>>
    /\ karaokeChunks = <<>>
    /\ done = {}
    /\ TimelineIdle
    /\ RendererIdle
    /\ srtContent = <<>>
    /\ DurationIdle
    /\ TemplateIdle
    /\ LoaderIdle
    /\ splitText \in SplitTexts
    /\ splitRemaining = splitText
    /\ splitChunks = <<>>
    /\ splitPc = "loop"

\* one iteration of while (remainingText.length > 0)
SplitIterate ==
    /\ splitPc = "loop"
    /\ Len(splitRemaining) > 0
    /\ IF Len(splitRemaining) <= config.maxChars
       THEN /\ splitChunks' = Append(splitChunks, splitRemaining)
            /\ splitPc' = "filter"
            /\ UNCHANGED splitRemaining
       ELSE LET bestBreakPoint ==
                    CutPoint(FindBreakPoint(splitRemaining, config.maxChars,
                                            config.wordBreakPriority),
                             config.maxChars)
            IN  /\ splitChunks' =
                     Append(splitChunks, substring(splitRemaining, 0, bestBreakPoint + 1))
                /\ splitRemaining' =
                     substring(splitRemaining, bestBreakPoint + 1, Len(splitRemaining))
                /\ UNCHANGED splitPc
    /\ UNCHANGED splitText
    /\ UNCHANGED chunkVars
    /\ UNCHANGED timelineVars
    /\ UNCHANGED rendererVars
    /\ UNCHANGED srtContent
    /\ UNCHANGED <<durationVars, templateVars, loaderVars>>

\* the loop is left, by its condition or by the break:
\* return chunks.filter(chunk => chunk.trim().length > 0)
SplitReturn ==
    /\ \/ splitPc = "filter"
       \/ splitPc = "loop" /\ Len(splitRemaining) = 0
    /\ splitChunks' = SelectSeq(splitChunks, NonBlank)
    /\ splitPc' = "returned"
    /\ UNCHANGED <<splitText, splitRemaining>>
    /\ UNCHANGED chunkVars
    /\ UNCHANGED timelineVars
    /\ UNCHANGED rendererVars
    /\ UNCHANGED srtContent
    /\ UNCHANGED <<durationVars, templateVars, loaderVars>>

NextSplit == SplitIterate \/ SplitReturn

SpecSplit == InitSplit /\ [][NextSplit]_vars

\* the call runs on: the loop is synchronous code
SpecSplitFair == SpecSplit /\ WF_vars(NextSplit)

RECURSIVE Concat(_)
Concat(fragments) ==
    IF Len(fragments) = 0 THEN <<>> ELSE Head(fragments) \o Concat(Tail(fragments))

\* the fragment a cut of text must give: up to the first occurrence of the
\* character of greatest index in wordBreakPriority among the first maxChars
\* characters, the first maxChars characters when none of them is in the list
ExpectedFragment(text, maxChars, breakPriority) ==
    LET window == SubSeq(text, 1, maxChars)
        ranks == {indexOf(breakPriority, window[k]) : k \in DOMAIN window} \ {-1}
    IN  IF ranks = {} THEN window
        ELSE LET top == CHOOSE r \in ranks : \A q \in ranks : q <= r
                 at == CHOOSE k \in DOMAIN window :
                          /\ indexOf(breakPriority, window[k]) = top
                          /\ \A j \in 1..(k - 1) : indexOf(breakPriority, window[j]) # top
             IN  SubSeq(text, 1, at)

\* every fragment is at most maxChars long; in the loop the fragments and
\* what is left make up the text, after the loop the fragments alone do
C27_Fragments ==
    /\ \A k \in DOMAIN splitChunks : Len(splitChunks[k]) <= config.maxChars
    /\ splitPc = "loop" => Concat(splitChunks) \o splitRemaining = splitText
    /\ splitPc = "filter" => Concat(splitChunks) = splitText
    /\ splitPc = "returned" => splitChunks = splitTextIntoChunks(splitText, config.maxChars,
                                                                 config.wordBreakPriority)

\* an iteration on a text longer than maxChars pushes the expected fragment
C27_Cut ==
    (splitPc = "loop" /\ splitPc' = "loop" /\ Len(splitRemaining) > config.maxChars) =>
        splitChunks' = Append(splitChunks,
                              ExpectedFragment(splitRemaining, config.maxChars,
                                               config.wordBreakPriority))

\* C27: in character-chunking mode with maxChars >= 1, every fragment has at
\* most maxChars characters and the fragments, before the blank ones are
\* dropped, concatenate to the text; each cut falls right after the character
\* of highest rank in wordBreakPriority among the first maxChars characters of
\* what is left, whatever its position, and when none of them is a break
\* character the fragment is the first maxChars characters.
C27_CutsByRank == [](C27_Fragments) /\ [][C27_Cut]_vars

\* two break characters are in the window and the one of higher rank comes first
C27_Witness ==
    /\ splitPc = "returned"
    /\ config.maxChars = 3
    /\ config.wordBreakPriority = <<" ", ",">>
    /\ splitText = <<"a", ",", " ", "a", "a">>
    /\ splitChunks = << <<"a", ",">>, <<" ", "a", "a">> >>

\* C30: for every text, every maxChars >= 1 and every wordBreakPriority,
\* splitTextIntoChunks terminates: each iteration of its loop either leaves the
\* loop or removes at least one character from what is left, and the call
\* returns.
C30_SplitTerminates ==
    /\ [][splitPc = "loop" =>
            \/ splitPc' # "loop"
            \/ Len(splitRemaining') < Len(splitRemaining)]_vars
    /\ <>(splitPc = "returned")

C30_Witness ==
    /\ splitPc = "returned"
    /\ Len(splitText) = MaxSplitLen
    /\ config.maxChars = 1
    /\ Len(splitChunks) >= 2

====
